---- MODULE Spec2Model ----
(***************************************************************************)
(* A model of parts of the BoringSSL sources vendored in grpc-swift:       *)
(*   - the byte cursor CBS of crypto/bytestring/cbs.c (specification       *)
(*     SpecCBS) and its DER element headers (specification SpecDER),       *)
(*   - the TLS 1.3 client handshake state machine of ssl/tls13_client.cc   *)
(*     (specification SpecHS), and its driver call by call (specification  *)
(*     SpecDriver, and SpecDriverFair under fair scheduling),              *)
(*   - the ClientHello extension block of ssl/t1_lib.cc, built for the     *)
(*     first ClientHello and again after a HelloRetryRequest               *)
(*     (specification SpecCH),                                             *)
(*   - the GREASE values of the ClientHello extension block                *)
(*     (specification SpecGrease),                                         *)
(*   - the decoding of a hello extension block in ssl/t1_lib.cc            *)
(*     (specification SpecScan), and of the NPN and ALPN extensions of a   *)
(*     ServerHello (specification SpecProto),                              *)
(*   - the client's processing of a NewSessionTicket message in            *)
(*     ssl/tls13_client.cc (specification SpecNST),                        *)
(*   - the server's processing of a session ticket in ssl/t1_lib.cc        *)
(*     (specifications SpecTicket and SpecKeys), and                       *)
(*   - the byte builder CBB as ssl/t1_lib.cc uses it for extensions and    *)
(*     for the extension block of a hello (specifications SpecCBB and      *)
(*     SpecBlock).                                                         *)
(* Each specification leaves the other parts' variables untouched.         *)
(***************************************************************************)
EXTENDS Integers, Naturals, Sequences, FiniteSets, TLC

VARIABLES
  buf,        \* the byte span a CBS was initialised over (a sequence of bytes)
  cbs,        \* the cursor: [data |-> offset into buf, len |-> bytes visible]
  out,        \* the CBS *out of the last getter, empty before each call
  last,       \* the last call: a getter's name, argument, result, cursor before;
              \* in SpecDriver the handlers a call of the driver ran
  hs,         \* SSL_HANDSHAKE / SSL fields the TLS 1.3 client handlers use
  queue,      \* incoming handshake messages not yet consumed (head = current)
  log,        \* ordered effects of the handshake (hashes, key schedule, flight)
  drv,        \* the driver tls13_client_handshake: position, result, counters
  hello,      \* the ClientHellos written so far and the extension blocks built
  scan,       \* the last extension block decoded and what the decoder did
  ticket,     \* session tickets: the session, the ticket keys, what was done
  cbb         \* a CBB under construction: its bytes and its open sections

cbsVars == <<buf, cbs, out, last>>
hsVars == <<hs, queue, log, drv>>
otherVars == <<hello, scan, ticket, cbb>>
vars == <<buf, cbs, out, last, hs, queue, log, drv, hello, scan, ticket, cbb>>

(***************************************************************************)
(* Bounds of the model.                                                    *)
(***************************************************************************)
MaxLen == 4

\* Byte values the spans are built from: small lengths and tags (0, 1) and a
\* long-form length octet (0x81), which is also a length no span can hold.
ByteVals == {0, 1, 129}

RECURSIVE SeqsUpTo(_, _)
SeqsUpTo(S, n) ==
  IF n = 0 THEN {<<>>}
  ELSE LET shorter == SeqsUpTo(S, n - 1)
       IN shorter \cup {Append(s, x) : s \in {t \in shorter : Len(t) = n - 1}, x \in S}

(***************************************************************************)
(* crypto/bytestring/cbs.c                                                 *)
(***************************************************************************)

\* A uint32_t held as two 16-bit halves, so that the arithmetic keeps its
\* 32-bit width.
U32Zero == [hi |-> 0, lo |-> 0]

\* result <<= 8; result |= b;   (on a uint32_t)
ShiftOr(r, b) ==
  [hi |-> (r.hi * 256 + (r.lo \div 256)) % 65536, lo |-> (r.lo % 256) * 256 + b]

\* A uint32_t too large for any span of the model (>= 2^30).
U32Huge(r) == r.hi >= 16384

\* The value of a uint32_t that is not U32Huge.
U32Val(r) == r.hi * 65536 + r.lo

\* data[i] of a cursor positioned at offset data (buf is 1-indexed).
ByteAt(data, i) == buf[data + i + 1]

CBS_init(data, len) == [data |-> data, len |-> len]

cbs_get_keeplen(c, n) ==
  IF c.len < n THEN [ret |-> 0, cbs |-> c, p |-> c.data]
  ELSE [ret |-> 1, cbs |-> [data |-> c.data + n, len |-> c.len], p |-> c.data]

cbs_get(c, n) ==
  IF c.len < n THEN [ret |-> 0, cbs |-> c, p |-> c.data]
  ELSE [ret |-> 1, cbs |-> [data |-> c.data + n, len |-> c.len - n], p |-> c.data]

CBS_skip(c, len) == cbs_get(c, len)

CBS_data(c) == c.data

CBS_len(c) == c.len

RECURSIVE cbs_get_u_loop(_, _, _, _)
cbs_get_u_loop(data, i, len, result) ==
  IF i >= len THEN result
  ELSE cbs_get_u_loop(data, i + 1, len, ShiftOr(result, ByteAt(data, i)))

\* [ret, cbs, val]: val is *out, written only on success.
cbs_get_u(c, len) ==
  LET g == cbs_get(c, len)
  IN IF g.ret = 0 THEN [ret |-> 0, cbs |-> g.cbs, val |-> U32Zero]
     ELSE [ret |-> 1, cbs |-> g.cbs, val |-> cbs_get_u_loop(g.p, 0, len, U32Zero)]

CBS_get_u8(c) ==
  LET g == cbs_get(c, 1)
  IN IF g.ret = 0 THEN [ret |-> 0, cbs |-> g.cbs, val |-> U32Zero]
     ELSE [ret |-> 1, cbs |-> g.cbs, val |-> [hi |-> 0, lo |-> ByteAt(g.p, 0)]]

CBS_get_u16(c) == cbs_get_u(c, 2)

CBS_get_u24(c) == cbs_get_u(c, 3)

CBS_get_u32(c) == cbs_get_u(c, 4)

CBS_get_last_u8(c) ==
  IF c.len = 0 THEN [ret |-> 0, cbs |-> c, val |-> U32Zero]
  ELSE [ret |-> 1, cbs |-> [data |-> c.data, len |-> c.len - 1],
        val |-> [hi |-> 0, lo |-> ByteAt(c.data, c.len - 1)]]

CBS_get_bytes_wide(c, o, len) ==
  LET g == cbs_get(c, len)
  IN IF g.ret = 0 THEN [ret |-> 0, cbs |-> g.cbs, out |-> o]
     ELSE [ret |-> 1, cbs |-> g.cbs, out |-> CBS_init(g.p, len + 1)]

\* [ret, cbs, out]: out is the CBS *out, o its value before the call.
CBS_get_bytes(c, o, len) ==
  LET g == cbs_get(c, len)
  IN IF g.ret = 0 THEN [ret |-> 0, cbs |-> g.cbs, out |-> o]
     ELSE [ret |-> 1, cbs |-> g.cbs, out |-> CBS_init(g.p, len)]

\* [ret, cbs, copied]: copied is what memcpy wrote to the caller's buffer.
CBS_copy_bytes(c, len) ==
  LET g == cbs_get(c, len)
  IN IF g.ret = 0 THEN [ret |-> 0, cbs |-> g.cbs, copied |-> <<>>]
     ELSE [ret |-> 1, cbs |-> g.cbs, copied |-> [i \in 1..len |-> ByteAt(g.p, i - 1)]]

cbs_get_length_prefixed(c, o, len_len) ==
  LET u == cbs_get_u(c, len_len)
  IN IF u.ret = 0 THEN [ret |-> 0, cbs |-> u.cbs, out |-> o]
     ELSE IF U32Huge(u.val) THEN [ret |-> 0, cbs |-> u.cbs, out |-> o]
     ELSE CBS_get_bytes(u.cbs, o, U32Val(u.val))

CBS_get_u8_length_prefixed(c, o) == cbs_get_length_prefixed(c, o, 1)

CBS_get_u16_length_prefixed(c, o) == cbs_get_length_prefixed(c, o, 2)

CBS_get_u24_length_prefixed(c, o) == cbs_get_length_prefixed(c, o, 3)

\* A parser without the test for the minimal number of length octets.
U32ShrIsZero_never(r, nbytes) == FALSE

\* (v >> (8 * nbytes)) == 0 on a uint32_t.
U32ShrIsZero(r, nbytes) ==
  CASE nbytes = 0 -> r.hi = 0 /\ r.lo = 0
    [] nbytes = 1 -> r.hi = 0 /\ r.lo < 256
    [] nbytes = 2 -> r.hi = 0
    [] OTHER -> r.hi < 256

\* The value of an output parameter the callee did not write.
NotWritten == 0 - 1

\* (tag & CBS_ASN1_CONSTRUCTED) != 0, CBS_ASN1_CONSTRUCTED being 0x20.
IsConstructed(tag) == (tag \div 32) % 2 = 1

\* [ret, cbs, out, tag, header_len]: o is *out before the call; tag and
\* header_len are *out_tag and *out_header_len as the call leaves them.
cbs_get_any_asn1_element(c, o, ber_ok) ==
  LET t == CBS_get_u8(c)
      l == CBS_get_u8(t.cbs)
      Fail(tg) == [ret |-> 0, cbs |-> c, out |-> o, tag |-> tg, header_len |-> NotWritten]
      Finish(b, tg, hl) == [ret |-> b.ret, cbs |-> b.cbs, out |-> b.out, tag |-> tg, header_len |-> hl]
  IN IF t.ret = 0 \/ l.ret = 0 THEN Fail(NotWritten)
     ELSE LET tag == t.val.lo
              length_byte == l.val.lo
          IN IF tag % 32 = 31 THEN Fail(NotWritten)
             ELSE IF length_byte < 128
               THEN \* Short form length.
                    Finish(CBS_get_bytes(c, o, length_byte + 2), tag, 2)
             ELSE LET num_bytes == length_byte % 128
                      u == cbs_get_u(l.cbs, num_bytes)
                  IN IF ber_ok /\ IsConstructed(tag) /\ num_bytes = 0
                       THEN \* indefinite length
                            Finish(CBS_get_bytes(c, o, 2), tag, 2)
                     ELSE IF num_bytes = 0 \/ num_bytes > 4 THEN Fail(tag)
                     ELSE IF u.ret = 0 THEN Fail(tag)
                     ELSE IF u.val.hi = 0 /\ u.val.lo < 128 THEN Fail(tag)
                     ELSE IF U32ShrIsZero(u.val, num_bytes - 1) THEN Fail(tag)
                     ELSE IF U32Huge(u.val)
                       THEN \* len + 2 + num_bytes wraps (return 0) or exceeds
                            \* every span (CBS_get_bytes returns 0).
                            Fail(tag)
                     ELSE Finish(CBS_get_bytes(c, o, U32Val(u.val) + 2 + num_bytes),
                                 tag, 2 + num_bytes)

CBS_get_any_asn1_element(c, o) == cbs_get_any_asn1_element(c, o, FALSE)

CBS_get_any_ber_asn1_element(c, o) == cbs_get_any_asn1_element(c, o, TRUE)

CBS_get_any_asn1(c, o) ==
  LET e == CBS_get_any_asn1_element(c, o)
  IN IF e.ret = 0 THEN e
     ELSE [e EXCEPT !.out = CBS_skip(e.out, e.header_len).cbs]

\* [ret, cbs, out]
cbs_get_asn1(c, o, tag_value, skip_header) ==
  LET e == CBS_get_any_asn1_element(c, o)
  IN IF e.ret = 0 \/ e.tag # tag_value
       THEN [ret |-> 0, cbs |-> e.cbs, out |-> e.out]
     ELSE IF skip_header
       THEN [ret |-> 1, cbs |-> e.cbs, out |-> CBS_skip(e.out, e.header_len).cbs]
     ELSE [ret |-> 1, cbs |-> e.cbs, out |-> e.out]

CBS_get_asn1(c, o, tag_value) == cbs_get_asn1(c, o, tag_value, TRUE)

CBS_get_asn1_element(c, o, tag_value) == cbs_get_asn1(c, o, tag_value, FALSE)

CBS_peek_asn1_tag(c, tag_value) ==
  IF CBS_len(c) < 1 THEN FALSE ELSE ByteAt(CBS_data(c), 0) = tag_value

(***************************************************************************)
(* SpecCBS: a cursor over an arbitrary span, and any sequence of getters.  *)
(***************************************************************************)

\* The handshake part at rest.
HsIdle ==
  /\ hs = [tls13_state |-> 0]
  /\ queue = <<>>
  /\ log = <<>>
  /\ drv = [pc |-> "idle"]
  /\ hello = [count |-> 0]
  /\ scan = [decoded |-> 0]
  /\ ticket = [processed |-> 0]
  /\ cbb = [ops |-> 0]

\* The caller's CBS out before a call: an empty cursor.
NoOut == CBS_init(0, 0)

InitCBS ==
  /\ buf \in SeqsUpTo(ByteVals, MaxLen)
  /\ cbs = CBS_init(0, Len(buf))
  /\ out = NoOut
  /\ last = [op |-> "CBS_init", arg |-> Len(buf), ret |-> 1, pre |-> cbs, val |-> U32Zero]
  /\ HsIdle

\* The call op(arg) on the cursor returned ret, left the cursor c and *out o,
\* and wrote val to its integer output.
CbsCall(op, arg, ret, c, o, val) ==
  /\ cbs' = c
  /\ out' = o
  /\ last' = [op |-> op, arg |-> arg, ret |-> ret, pre |-> cbs, val |-> val]
  /\ UNCHANGED <<buf, hs, queue, log, drv, otherVars>>

Lengths == 0..(MaxLen + 1)

AsnTags == {0, 1}

Do_CBS_skip ==
  \E n \in Lengths :
    LET r == CBS_skip(cbs, n) IN CbsCall("CBS_skip", n, r.ret, r.cbs, NoOut, U32Zero)

Do_CBS_get_u8 ==
  LET r == CBS_get_u8(cbs) IN CbsCall("CBS_get_u8", 1, r.ret, r.cbs, NoOut, r.val)

Do_CBS_get_u16 ==
  LET r == CBS_get_u16(cbs) IN CbsCall("CBS_get_u16", 2, r.ret, r.cbs, NoOut, r.val)

Do_CBS_get_u24 ==
  LET r == CBS_get_u24(cbs) IN CbsCall("CBS_get_u24", 3, r.ret, r.cbs, NoOut, r.val)

Do_CBS_get_u32 ==
  LET r == CBS_get_u32(cbs) IN CbsCall("CBS_get_u32", 4, r.ret, r.cbs, NoOut, r.val)

Do_CBS_get_last_u8 ==
  LET r == CBS_get_last_u8(cbs)
  IN CbsCall("CBS_get_last_u8", 1, r.ret, r.cbs, NoOut, r.val)

Do_CBS_get_bytes ==
  \E n \in Lengths :
    LET r == CBS_get_bytes(cbs, NoOut, n)
    IN CbsCall("CBS_get_bytes", n, r.ret, r.cbs, r.out, U32Zero)

Do_CBS_copy_bytes ==
  \E n \in Lengths :
    LET r == CBS_copy_bytes(cbs, n)
    IN CbsCall("CBS_copy_bytes", n, r.ret, r.cbs, NoOut, U32Zero)

Do_CBS_get_u8_length_prefixed ==
  LET r == CBS_get_u8_length_prefixed(cbs, NoOut)
  IN CbsCall("CBS_get_u8_length_prefixed", 1, r.ret, r.cbs, r.out, U32Zero)

Do_CBS_get_u16_length_prefixed ==
  LET r == CBS_get_u16_length_prefixed(cbs, NoOut)
  IN CbsCall("CBS_get_u16_length_prefixed", 2, r.ret, r.cbs, r.out, U32Zero)

Do_CBS_get_u24_length_prefixed ==
  LET r == CBS_get_u24_length_prefixed(cbs, NoOut)
  IN CbsCall("CBS_get_u24_length_prefixed", 3, r.ret, r.cbs, r.out, U32Zero)

Do_CBS_get_any_asn1_element ==
  LET r == CBS_get_any_asn1_element(cbs, NoOut)
  IN CbsCall("CBS_get_any_asn1_element", r.header_len, r.ret, r.cbs, r.out,
             [hi |-> 0, lo |-> r.tag])

Do_CBS_get_any_asn1 ==
  LET r == CBS_get_any_asn1(cbs, NoOut)
  IN CbsCall("CBS_get_any_asn1", r.header_len, r.ret, r.cbs, r.out,
             [hi |-> 0, lo |-> r.tag])

Do_CBS_get_asn1 ==
  \E t \in AsnTags :
    LET r == CBS_get_asn1(cbs, NoOut, t)
    IN CbsCall("CBS_get_asn1", t, r.ret, r.cbs, r.out, U32Zero)

Do_CBS_get_asn1_element ==
  \E t \in AsnTags :
    LET r == CBS_get_asn1_element(cbs, NoOut, t)
    IN CbsCall("CBS_get_asn1_element", t, r.ret, r.cbs, r.out, U32Zero)

NextCBS ==
  \/ Do_CBS_skip
  \/ Do_CBS_get_u8
  \/ Do_CBS_get_u16
  \/ Do_CBS_get_u24
  \/ Do_CBS_get_u32
  \/ Do_CBS_get_last_u8
  \/ Do_CBS_get_bytes
  \/ Do_CBS_copy_bytes
  \/ Do_CBS_get_u8_length_prefixed
  \/ Do_CBS_get_u16_length_prefixed
  \/ Do_CBS_get_u24_length_prefixed
  \/ Do_CBS_get_any_asn1_element
  \/ Do_CBS_get_any_asn1
  \/ Do_CBS_get_asn1
  \/ Do_CBS_get_asn1_element

SpecCBS == InitCBS /\ [][NextCBS]_vars

(***************************************************************************)
(* ssl/tls13_client.cc: the TLS 1.3 client handshake                       *)
(***************************************************************************)

\* enum client_hs_state_t
state_read_hello_retry_request == 0
state_send_second_client_hello == 1
state_read_server_hello == 2
state_read_encrypted_extensions == 3
state_read_certificate_request == 4
state_read_server_certificate == 5
state_read_server_certificate_verify == 6
state_read_server_finished == 7
state_send_end_of_early_data == 8
state_send_client_certificate == 9
state_send_client_certificate_verify == 10
state_complete_second_flight == 11
state_done == 12

\* The TLS 1.3 variants ssl->version can hold.
Versions ==
  {"TLS1_3_DRAFT_VERSION", "TLS1_3_EXPERIMENT_VERSION",
   "TLS1_3_DRAFT21_VERSION", "TLS1_3_DRAFT22_VERSION"}

ssl_is_draft21(version) ==
  version \in {"TLS1_3_DRAFT21_VERSION", "TLS1_3_DRAFT22_VERSION"}

ssl_is_draft22(version) == version = "TLS1_3_DRAFT22_VERSION"

ssl_is_resumption_experiment(version) ==
  version \in {"TLS1_3_EXPERIMENT_VERSION", "TLS1_3_DRAFT22_VERSION"}

ssl_is_resumption_client_ccs_experiment(version) ==
  version \in {"TLS1_3_EXPERIMENT_VERSION", "TLS1_3_DRAFT22_VERSION"}

\* Named groups: the client's supported list (tls1_get_grouplist) and the
\* group of the key share of the first ClientHello, its first entry. The
\* server may also name P-384, which this client does not support.
SupportedGroups == {"X25519", "P-256"}
OfferedGroup == "X25519"

tls1_check_group_id_any(group_id) == TRUE

tls1_check_group_id(group_id) == \E supported \in SupportedGroups : supported = group_id

\* The TLS 1.3 cipher suites the server may name; they differ in the PRF
\* hash. It may also name ECDHE_RSA_AES_128_GCM_SHA256, which is none.
Tls13Ciphers == {"AES_128_GCM_SHA256", "AES_256_GCM_SHA384"}

algorithm_prf(cipher) == IF cipher = "AES_256_GCM_SHA384" THEN "SHA384" ELSE "SHA256"

\* SSL_get_cipher_by_value found a cipher whose version range holds TLS 1.3.
IsTls13Cipher(cipher) == cipher \in Tls13Ciphers

\* ssl->session as the first ClientHello offered it: none, or a session that
\* is resumable, of another protocol version, or of another session context.
\* Every session's cipher is AES_128_GCM_SHA256.
Sessions == {"none", "ok", "old_version", "other_context"}

(***************************************************************************)
(* Handshake messages. A message is its type and what the parsers find in  *)
(* its body; id is its place in the order of arrival.                      *)
(***************************************************************************)
Msg(type) ==
  [type |-> type,
   id |-> 0,
   decodes |-> TRUE,        \* the body has the layout the handler reads
   hrr_random |-> FALSE,    \* server_random is kHelloRetryRequest
   version_ok |-> TRUE,     \* server_version is the expected version
   cipher |-> "AES_128_GCM_SHA256",
   ext_ok |-> TRUE,         \* no unknown, duplicate or malformed extension
   key_share |-> "none",    \* none, malformed, or the group it names
   cookie |-> "none",       \* none, malformed (or empty), ok
   supported_versions |-> FALSE,
   pre_shared_key |-> "none", \* none, malformed, psk0 (index 0), psk1
   early_data |-> FALSE,    \* EncryptedExtensions accepts early data
   channel_id |-> FALSE,    \* EncryptedExtensions acknowledges Channel ID
   alpn_ok |-> TRUE,        \* the ALPN selected is the early session's
   valid |-> TRUE]          \* the collaborator (certificate, signature,
                            \* Finished MAC checks) accepts the message

\* What a HelloRetryRequest may carry.
RetryBodies(m) ==
  {[m EXCEPT !.key_share = "P-256"],
   [m EXCEPT !.cookie = "ok"],
   [m EXCEPT !.key_share = "P-256", !.cookie = "ok"],
   m,
   [m EXCEPT !.supported_versions = TRUE],
   [m EXCEPT !.key_share = "P-256", !.supported_versions = TRUE],
   [m EXCEPT !.key_share = "X25519"],
   [m EXCEPT !.key_share = "P-384"],
   [m EXCEPT !.key_share = "P-256", !.cipher = "ECDHE_RSA_AES_128_GCM_SHA256"],
   [m EXCEPT !.key_share = "P-256", !.cipher = "AES_256_GCM_SHA384"],
   [m EXCEPT !.key_share = "P-256", !.decodes = FALSE],
   [m EXCEPT !.ext_ok = FALSE],
   [m EXCEPT !.key_share = "P-256", !.cookie = "malformed"],
   [m EXCEPT !.key_share = "X25519", !.cookie = "malformed"],
   [m EXCEPT !.key_share = "malformed"]}

\* What a ServerHello may carry.
ServerHelloBodies(m) ==
  {[m EXCEPT !.key_share = "X25519"],
   [m EXCEPT !.key_share = "P-256"],
   [m EXCEPT !.key_share = "X25519", !.pre_shared_key = "psk0"],
   [m EXCEPT !.key_share = "P-256", !.pre_shared_key = "psk0"],
   [m EXCEPT !.key_share = "X25519", !.pre_shared_key = "psk1"],
   [m EXCEPT !.key_share = "X25519", !.pre_shared_key = "malformed"],
   m,
   [m EXCEPT !.pre_shared_key = "psk0"],
   [m EXCEPT !.key_share = "X25519", !.cipher = "AES_256_GCM_SHA384"],
   [m EXCEPT !.key_share = "X25519", !.cipher = "AES_256_GCM_SHA384",
             !.pre_shared_key = "psk0"],
   [m EXCEPT !.key_share = "X25519", !.cipher = "ECDHE_RSA_AES_128_GCM_SHA256"],
   [m EXCEPT !.key_share = "X25519", !.version_ok = FALSE],
   [m EXCEPT !.key_share = "X25519", !.supported_versions = TRUE],
   [m EXCEPT !.key_share = "X25519", !.decodes = FALSE],
   [m EXCEPT !.key_share = "X25519", !.ext_ok = FALSE],
   [m EXCEPT !.key_share = "malformed"]}

EncryptedExtensionsBodies(m) ==
  {m,
   [m EXCEPT !.early_data = TRUE],
   [m EXCEPT !.early_data = TRUE, !.alpn_ok = FALSE],
   [m EXCEPT !.channel_id = TRUE],
   [m EXCEPT !.early_data = TRUE, !.channel_id = TRUE],
   [m EXCEPT !.ext_ok = FALSE],
   [m EXCEPT !.decodes = FALSE]}

\* A message the collaborators accept, and one they reject.
PlainBodies(m) == {m, [m EXCEPT !.valid = FALSE]}

Messages ==
  RetryBodies(Msg("hello_retry_request"))
  \cup RetryBodies([Msg("server_hello") EXCEPT !.hrr_random = TRUE])
  \cup ServerHelloBodies(Msg("server_hello"))
  \cup EncryptedExtensionsBodies(Msg("encrypted_extensions"))
  \cup PlainBodies(Msg("certificate_request"))
  \cup PlainBodies(Msg("certificate"))
  \cup PlainBodies(Msg("certificate_verify"))
  \cup PlainBodies(Msg("finished"))
  \cup {Msg("new_session_ticket")}

\* An entry of the log: an effect e with its argument, and the message id it
\* is about (0 when it is about none).
Ev(e, a) == [e |-> e, a |-> a, id |-> 0]
EvMsg(e, m) == [e |-> e, a |-> m.type, id |-> m.id]

NoAlert == "none"

(***************************************************************************)
(* The handshake object. key_share is the group of hs->key_share or "null" *)
(* once it was reset; retry_group is "none" for 0; new_cipher is "null"    *)
(* until a cipher was assigned; new_session is "null", "new" or "dup".     *)
(* early_data_sent is the early_data bit of hs->extensions.sent, which     *)
(* every ClientHello recomputes.                                           *)
(***************************************************************************)
NewHandshake(version, session, early, channel_id) ==
  [tls13_state |-> state_read_hello_retry_request,
   version |-> version,
   session |-> session,
   early_data_offered |-> early,
   early_data_sent |-> early,
   in_early_data |-> early,
   can_early_write |-> early,
   early_data_accepted |-> FALSE,
   received_hello_retry_request |-> FALSE,
   key_share |-> OfferedGroup,
   retry_group |-> "none",
   cookie |-> FALSE,
   new_cipher |-> "null",
   session_reused |-> FALSE,
   new_session |-> "null",
   cert_request |-> FALSE,
   has_certificate |-> FALSE,
   channel_id_enabled |-> channel_id,
   tlsext_channel_id_valid |-> FALSE,
   tlsext_channel_id_private |-> FALSE]

\* What a handler invocation did: the handshake object it leaves, the effects
\* it had in order, what it returned, the fatal alert it sent, and whether an
\* error return came from the message or from a failing internal operation.
Result(h, evs, ret, alert, cause) ==
  [hs |-> h, evs |-> evs, ret |-> ret, alert |-> alert, cause |-> cause]

Ok(h, evs) == Result(h, evs, "ok", NoAlert, "none")

Wait(h, evs, ret) == Result(h, evs, ret, NoAlert, "none")

\* ssl_send_alert(ssl, SSL3_AL_FATAL, alert); return ssl_hs_error;
Reject(h, evs, alert) == Result(h, evs, "error", alert, "message")

\* return ssl_hs_error after an operation that has nothing to do with the
\* peer's message failed (allocation, hashing, key derivation, record layer).
Fail(h, evs) == Result(h, evs, "error", NoAlert, "internal")

\* The extensions a message carries, of those this client parses by name.
Present(msg) ==
  {e \in {"key_share", "cookie", "supported_versions", "pre_shared_key"} :
     \/ e = "key_share" /\ msg.key_share # "none"
     \/ e = "cookie" /\ msg.cookie # "none"
     \/ e = "supported_versions" /\ msg.supported_versions
     \/ e = "pre_shared_key" /\ msg.pre_shared_key # "none"}

\* The extension block of a ServerHello or HelloRetryRequest has no bytes.
ExtensionsEmpty(msg) == Present(msg) = {} /\ msg.ext_ok

\* ssl_parse_extensions(.., ext_types, 0): every extension is one of
\* ext_types and none is repeated or truncated.
ssl_parse_extensions(msg, ext_types) == msg.ext_ok /\ Present(msg) \subseteq ext_types

\* The alert ssl_parse_extensions reports for an extension it does not know.
ParseExtensionsAlert == "unsupported_extension"

ssl_check_message_type(msg, type) == msg.type = type

\* if (!have_cookie && !have_key_share)
EmptyHelloRetryRequest_never(have_cookie, have_key_share) == FALSE

EmptyHelloRetryRequest(have_cookie, have_key_share) == ~have_cookie /\ ~have_key_share

\* The message is not a retry request: hand it to do_read_server_hello.
not_a_retry_request_consuming(h, msg, evs) ==
  Ok([h EXCEPT !.tls13_state = state_read_server_hello],
     evs \o <<EvMsg("next_message", msg)>>)

\* not_a_retry_request that answers ok in the state it was called in.
not_a_retry_request_staying(h, msg, evs) == Ok(h, evs)

not_a_retry_request(h, msg, evs) ==
  Ok([h EXCEPT !.tls13_state = state_read_server_hello], evs)

\* do_read_hello_retry_request from the cipher check on: msg was recognised as
\* a HelloRetryRequest and its body decoded; evs is what the handler did so far.
hello_retry_request_body(h, msg, evs, fail) ==
  LET draft21 == ssl_is_draft21(h.version)
      draft22 == ssl_is_draft22(h.version)
      h1 == IF draft21 THEN [h EXCEPT !.new_cipher = msg.cipher] ELSE h
      evs1 == IF draft21
                THEN evs \o <<Ev("transcript", "UpdateForHelloRetryRequest")>>
                ELSE evs
      have_cookie == msg.cookie # "none"
      have_key_share == msg.key_share # "none"
      h2 == IF have_cookie THEN [h1 EXCEPT !.cookie = TRUE] ELSE h1
      h3 == IF have_key_share
              THEN [h2 EXCEPT !.key_share = "null", !.retry_group = msg.key_share]
              ELSE h2
      h4 == [h3 EXCEPT !.received_hello_retry_request = TRUE,
                       !.tls13_state = state_send_second_client_hello]
      evs4 == evs1 \o <<EvMsg("ssl_hash_message", msg), EvMsg("next_message", msg)>>
  IN
  IF draft21 /\ ~IsTls13Cipher(msg.cipher) THEN Reject(h, evs, "illegal_parameter")
  ELSE IF draft21 /\ fail = "transcript" THEN Fail(h1, evs)
  ELSE IF ~ssl_parse_extensions(msg, {"key_share", "cookie", "supported_versions"})
    THEN Reject(h1, evs1, ParseExtensionsAlert)
  ELSE IF ~draft22 /\ msg.supported_versions
    THEN Reject(h1, evs1, "unsupported_extension")
  ELSE IF EmptyHelloRetryRequest(have_cookie, have_key_share)
    THEN Reject(h1, evs1, "illegal_parameter")
  ELSE IF have_cookie /\ msg.cookie = "malformed" THEN Reject(h1, evs1, "decode_error")
  ELSE IF have_cookie /\ fail = "cookie" THEN Fail(h1, evs1)
  ELSE IF have_key_share /\ msg.key_share = "malformed"
    THEN Reject(h2, evs1, "decode_error")
  ELSE IF have_key_share /\ ~tls1_check_group_id(msg.key_share)
    THEN Reject(h2, evs1, "illegal_parameter")
  ELSE IF have_key_share /\ h.key_share = msg.key_share
    THEN Reject(h2, evs1, "illegal_parameter")
  ELSE IF fail = "ssl_hash_message" THEN Fail(h3, evs1)
  ELSE IF h.in_early_data THEN Wait(h4, evs4, "early_data_rejected")
  ELSE Ok(h4, evs4)

do_read_hello_retry_request(h, q, fail) ==
  IF q = <<>> THEN Wait(h, <<>>, "read_message")
  ELSE
    LET msg == Head(q)
        ccs == IF ~h.early_data_offered
                 THEN <<Ev("add_change_cipher_spec", "")>> ELSE <<>>
    IN
    IF ssl_is_draft22(h.version)
      THEN IF ~h.early_data_offered /\ fail = "add_change_cipher_spec"
             THEN Fail(h, <<>>)
           ELSE IF ~ssl_check_message_type(msg, "server_hello")
             THEN Reject(h, ccs, "unexpected_message")
           ELSE IF ~msg.decodes \/ ExtensionsEmpty(msg)
             THEN Reject(h, ccs, "decode_error")
           ELSE IF ~msg.hrr_random THEN not_a_retry_request(h, msg, ccs)
           ELSE hello_retry_request_body(h, msg, ccs, fail)
      ELSE IF msg.type # "hello_retry_request" THEN not_a_retry_request(h, msg, <<>>)
           ELSE IF ~msg.decodes THEN Reject(h, <<>>, "decode_error")
           ELSE hello_retry_request_body(h, msg, <<>>, fail)

\* ssl_write_client_hello as the second ClientHello: it never offers early
\* data, repeats the first key share when no group was requested and
\* otherwise offers a share of retry_group.
ssl_write_client_hello(h) ==
  [h EXCEPT !.early_data_sent = FALSE,
            !.key_share = IF h.retry_group = "none" THEN h.key_share
                          ELSE h.retry_group]

\* do_send_second_client_hello that stays in its state after writing.
do_send_second_client_hello_again(h, q, fail) ==
  IF fail = "set_write_state" THEN Fail(h, <<>>)
  ELSE IF fail = "ssl_write_client_hello"
    THEN Fail(h, <<Ev("set_write_state", "null cipher")>>)
  ELSE Wait(ssl_write_client_hello(h),
            <<Ev("set_write_state", "null cipher"), Ev("add_message", "client_hello")>>,
            "flush")

do_send_second_client_hello(h, q, fail) ==
  IF fail = "set_write_state" THEN Fail(h, <<>>)
  ELSE IF fail = "ssl_write_client_hello"
    THEN Fail(h, <<Ev("set_write_state", "null cipher")>>)
  ELSE Wait([ssl_write_client_hello(h) EXCEPT !.tls13_state = state_read_server_hello],
            <<Ev("set_write_state", "null cipher"), Ev("add_message", "client_hello")>>,
            "flush")

\* return ssl_hs_error after ssl_send_alert(.., SSL_AD_INTERNAL_ERROR): an
\* internal operation failed and the peer is told.
FailAlert(h, evs) == Result(h, evs, "error", "internal_error", "internal")

\* Every offered session has this cipher (ssl->session->cipher).
SessionCipher == "AES_128_GCM_SHA256"

\* do_read_server_hello from the key schedule on (hash_len is known): msg
\* passed the checks of the ServerHello fields and of its pre_shared_key.
server_hello_key_schedule_dhe_first(h, msg, fail) ==
  Ok([h EXCEPT !.key_share = "null", !.tls13_state = state_read_encrypted_extensions],
     <<Ev("tls13_advance_key_schedule", "dhe"),
       Ev("tls13_init_key_schedule", IF h.session_reused THEN "psk" ELSE "zeroes"),
       EvMsg("ssl_hash_message", msg),
       Ev("tls13_derive_handshake_secrets", ""),
       EvMsg("next_message", msg)>>)

server_hello_key_schedule(h, msg, fail) ==
  LET init == <<Ev("tls13_init_key_schedule",
                   IF h.session_reused THEN "psk" ELSE "zeroes")>>
      h1 == [h EXCEPT !.key_share = "null"]
      advance == init \o <<Ev("tls13_advance_key_schedule", "dhe")>>
      hash == advance \o <<EvMsg("ssl_hash_message", msg)>>
      derive == hash \o <<Ev("tls13_derive_handshake_secrets", "")>>
      open == derive \o <<Ev("tls13_set_traffic_key", "open server_handshake_secret")>>
      client_ccs == ssl_is_resumption_client_ccs_experiment(h.version)
                    /\ ~ssl_is_draft22(h.version)
      ccs == IF client_ccs THEN open \o <<Ev("add_change_cipher_spec", "")>> ELSE open
      seal == IF h.early_data_offered THEN open
              ELSE ccs \o <<Ev("tls13_set_traffic_key", "seal client_handshake_secret")>>
  IN
  IF fail = "tls13_init_key_schedule" THEN Fail(h, <<>>)
  ELSE IF msg.key_share = "none" THEN Reject(h, init, "missing_extension")
  ELSE IF msg.key_share = "malformed" THEN Reject(h, init, "decode_error")
  ELSE IF h.key_share # msg.key_share THEN Reject(h, init, "illegal_parameter")
  ELSE IF fail = "Finish" THEN FailAlert(h, init)
  ELSE IF fail = "tls13_advance_key_schedule" THEN Fail(h1, init)
  ELSE IF fail = "ssl_hash_message" THEN Fail(h1, advance)
  ELSE IF fail = "tls13_derive_handshake_secrets" THEN Fail(h1, hash)
  ELSE IF fail = "tls13_set_traffic_key" THEN Fail(h1, derive)
  ELSE IF ~h.early_data_offered /\ client_ccs /\ fail = "add_change_cipher_spec"
    THEN Fail(h1, open)
  ELSE IF ~h.early_data_offered /\ fail = "tls13_set_traffic_key seal"
    THEN Fail(h1, ccs)
  ELSE Ok([h1 EXCEPT !.tls13_state = state_read_encrypted_extensions],
          seal \o <<EvMsg("next_message", msg)>>)

\* ssl_ext_pre_shared_key_parse_serverhello that takes any identity index.
ssl_ext_pre_shared_key_parse_serverhello_any(pre_shared_key) ==
  IF pre_shared_key = "malformed" THEN "decode_error" ELSE NoAlert

\* ssl_ext_pre_shared_key_parse_serverhello: the alert it reports, if any.
ssl_ext_pre_shared_key_parse_serverhello(pre_shared_key) ==
  IF pre_shared_key = "malformed" THEN "decode_error"
  ELSE IF pre_shared_key # "psk0" THEN "unknown_psk_identity"
  ELSE NoAlert

do_read_server_hello(h, q, fail) ==
  IF q = <<>> THEN Wait(h, <<>>, "read_message")
  ELSE
    LET msg == Head(q)
        have_pre_shared_key == msg.pre_shared_key # "none"
        reused == [h EXCEPT !.session_reused = TRUE]
        h1 == IF have_pre_shared_key
                THEN [reused EXCEPT !.new_session = "dup", !.session = "none"]
                ELSE [h EXCEPT !.new_session = "new"]
    IN
    IF ~ssl_check_message_type(msg, "server_hello")
      THEN Reject(h, <<>>, "unexpected_message")
    ELSE IF ~msg.decodes THEN Reject(h, <<>>, "decode_error")
    ELSE IF ~msg.version_ok THEN Reject(h, <<>>, "decode_error")
    ELSE IF ssl_is_draft22(h.version) /\ msg.hrr_random
      THEN Reject(h, <<>>, "unexpected_message")
    ELSE IF ~IsTls13Cipher(msg.cipher) THEN Reject(h, <<>>, "illegal_parameter")
    ELSE IF /\ ssl_is_draft21(h.version)
            /\ h.received_hello_retry_request
            /\ h.new_cipher # msg.cipher
      THEN Reject(h, <<>>, "illegal_parameter")
    ELSE IF ~ssl_parse_extensions(msg, {"key_share", "pre_shared_key", "supported_versions"})
      THEN Reject(h, <<>>, ParseExtensionsAlert)
    ELSE IF msg.supported_versions /\ ~ssl_is_resumption_experiment(h.version)
      THEN Reject(h, <<>>, "unsupported_extension")
    ELSE IF have_pre_shared_key /\ h.session = "none"
      THEN Reject(h, <<>>, "unsupported_extension")
    ELSE IF /\ have_pre_shared_key
            /\ ssl_ext_pre_shared_key_parse_serverhello(msg.pre_shared_key) # NoAlert
      THEN Reject(h, <<>>, ssl_ext_pre_shared_key_parse_serverhello(msg.pre_shared_key))
    ELSE IF have_pre_shared_key /\ h.session = "old_version"
      THEN Reject(h, <<>>, "illegal_parameter")
    ELSE IF have_pre_shared_key /\ algorithm_prf(SessionCipher) # algorithm_prf(msg.cipher)
      THEN Reject(h, <<>>, "illegal_parameter")
    ELSE IF have_pre_shared_key /\ h.session = "other_context"
      THEN Reject(h, <<>>, "illegal_parameter")
    ELSE IF have_pre_shared_key /\ fail = "SSL_SESSION_dup" THEN FailAlert(reused, <<>>)
    ELSE IF ~have_pre_shared_key /\ fail = "ssl_get_new_session" THEN FailAlert(h, <<>>)
    ELSE server_hello_key_schedule([h1 EXCEPT !.new_cipher = msg.cipher], msg, fail)

\* ssl_parse_serverhello_tlsext that takes an early_data extension the last
\* ClientHello did not hold.
ssl_parse_serverhello_tlsext_unsolicited(h, msg) ==
  LET early == msg.early_data /\ h.session_reused
      h1 == IF early THEN [h EXCEPT !.early_data_accepted = TRUE] ELSE h
      h2 == IF msg.channel_id /\ h.channel_id_enabled
              THEN [h1 EXCEPT !.tlsext_channel_id_valid = TRUE] ELSE h1
  IN
  IF ~msg.ext_ok THEN [ok |-> FALSE, hs |-> h, alert |-> "decode_error"]
  ELSE IF msg.early_data /\ ~early
    THEN [ok |-> FALSE, hs |-> h, alert |-> "unsupported_extension"]
  ELSE IF msg.channel_id /\ ~h.channel_id_enabled
    THEN [ok |-> FALSE, hs |-> h1, alert |-> "unsupported_extension"]
  ELSE [ok |-> TRUE, hs |-> h2, alert |-> NoAlert]

\* ssl_parse_serverhello_tlsext on the EncryptedExtensions block: ok, the
\* handshake object after the extension callbacks ran, and the alert sent.
ssl_parse_serverhello_tlsext(h, msg) ==
  LET early == msg.early_data /\ h.early_data_sent /\ h.session_reused
      h1 == IF early THEN [h EXCEPT !.early_data_accepted = TRUE] ELSE h
      h2 == IF msg.channel_id /\ h.channel_id_enabled
              THEN [h1 EXCEPT !.tlsext_channel_id_valid = TRUE] ELSE h1
  IN
  IF ~msg.ext_ok THEN [ok |-> FALSE, hs |-> h, alert |-> "decode_error"]
  ELSE IF msg.early_data /\ ~early
    THEN [ok |-> FALSE, hs |-> h, alert |-> "unsupported_extension"]
  ELSE IF msg.channel_id /\ ~h.channel_id_enabled
    THEN [ok |-> FALSE, hs |-> h1, alert |-> "unsupported_extension"]
  ELSE [ok |-> TRUE, hs |-> h2, alert |-> NoAlert]

\* return ssl_hs_error with no alert because of what the message holds.
RejectSilently(h, evs) == Result(h, evs, "error", NoAlert, "message")

do_read_encrypted_extensions(h, q, fail) ==
  IF q = <<>> THEN Wait(h, <<>>, "read_message")
  ELSE
    LET msg == Head(q)
        ext == ssl_parse_serverhello_tlsext(h, msg)
        h1 == ext.hs
        h2 == [h1 EXCEPT !.tls13_state = state_read_certificate_request]
        evs == <<EvMsg("ssl_hash_message", msg), EvMsg("next_message", msg)>>
    IN
    IF ~ssl_check_message_type(msg, "encrypted_extensions")
      THEN Reject(h, <<>>, "unexpected_message")
    ELSE IF ~ext.ok THEN Reject(h1, <<>>, ext.alert)
    ELSE IF ~msg.decodes THEN Reject(h1, <<>>, "decode_error")
    ELSE IF fail = "BUF_memdup" THEN FailAlert(h1, <<>>)
    ELSE IF h1.early_data_accepted /\ (SessionCipher # h1.new_cipher \/ ~msg.alpn_ok)
      THEN RejectSilently(h1, <<>>)
    ELSE IF h1.early_data_accepted /\ h1.tlsext_channel_id_valid
      THEN RejectSilently(h1, <<>>)
    ELSE IF fail = "ssl_hash_message" THEN Fail(h1, <<>>)
    ELSE IF h1.in_early_data /\ ~h1.early_data_accepted
      THEN Wait(h2, evs, "early_data_rejected")
    ELSE Ok(h2, evs)

do_read_certificate_request_always_read(h, q, fail) ==
  IF q = <<>> THEN Wait(h, <<>>, "read_message")
  ELSE Ok([h EXCEPT !.tls13_state = state_read_server_certificate], <<>>)

do_read_certificate_request(h, q, fail) ==
  IF h.session_reused
    THEN Ok([h EXCEPT !.tls13_state = state_read_server_finished], <<>>)
  ELSE IF q = <<>> THEN Wait(h, <<>>, "read_message")
  ELSE
    LET msg == Head(q)
        h1 == [h EXCEPT !.cert_request = TRUE]
    IN
    IF msg.type # "certificate_request"
      THEN Ok([h EXCEPT !.tls13_state = state_read_server_certificate], <<>>)
    ELSE IF ~msg.valid THEN Reject(h, <<>>, "decode_error")
    ELSE IF fail = "ca_names" THEN FailAlert(h, <<>>)
    ELSE IF fail = "ssl_hash_message" THEN Fail(h1, <<>>)
    ELSE Ok([h1 EXCEPT !.tls13_state = state_read_server_certificate],
            <<EvMsg("ssl_hash_message", msg), EvMsg("next_message", msg)>>)

do_read_server_certificate_next_first(h, q, fail) ==
  IF q = <<>> THEN Wait(h, <<>>, "read_message")
  ELSE Ok([h EXCEPT !.tls13_state = state_read_server_certificate_verify],
          <<EvMsg("next_message", Head(q)), EvMsg("ssl_hash_message", Head(q))>>)

do_read_server_certificate(h, q, fail) ==
  IF q = <<>> THEN Wait(h, <<>>, "read_message")
  ELSE
    LET msg == Head(q) IN
    IF ~ssl_check_message_type(msg, "certificate")
      THEN Reject(h, <<>>, "unexpected_message")
    ELSE IF ~msg.valid THEN Reject(h, <<>>, "decode_error")
    ELSE IF fail = "tls13_process_certificate" THEN FailAlert(h, <<>>)
    ELSE IF fail = "ssl_hash_message" THEN Fail(h, <<>>)
    ELSE Ok([h EXCEPT !.tls13_state = state_read_server_certificate_verify],
            <<EvMsg("ssl_hash_message", msg), EvMsg("next_message", msg)>>)

\* A callback's answer cut the handler short.
Callback(h, evs, ret, alert) == Result(h, evs, ret, alert, "callback")

do_read_server_certificate_verify_retry_consumes(h, q, fail, verify) ==
  IF q = <<>> THEN Wait(h, <<>>, "read_message")
  ELSE Callback(h, <<EvMsg("next_message", Head(q))>>, "certificate_verify", NoAlert)

\* verify is what ssl_verify_peer_cert answers.
do_read_server_certificate_verify(h, q, fail, verify) ==
  IF q = <<>> THEN Wait(h, <<>>, "read_message")
  ELSE
    LET msg == Head(q) IN
    IF verify = "ssl_verify_invalid" THEN Callback(h, <<>>, "error", "bad_certificate")
    ELSE IF verify = "ssl_verify_retry"
      THEN Callback([h EXCEPT !.tls13_state = state_read_server_certificate_verify],
                    <<>>, "certificate_verify", NoAlert)
    ELSE IF ~ssl_check_message_type(msg, "certificate_verify")
      THEN Reject(h, <<>>, "unexpected_message")
    ELSE IF ~msg.valid THEN Reject(h, <<>>, "decrypt_error")
    ELSE IF fail = "ssl_hash_message" THEN Fail(h, <<>>)
    ELSE Ok([h EXCEPT !.tls13_state = state_read_server_finished],
            <<EvMsg("ssl_hash_message", msg), EvMsg("next_message", msg)>>)

do_read_server_finished(h, q, fail) ==
  IF q = <<>> THEN Wait(h, <<>>, "read_message")
  ELSE
    LET msg == Head(q)
        hash == <<EvMsg("ssl_hash_message", msg)>>
        advance == hash \o <<Ev("tls13_advance_key_schedule", "zeroes")>>
        derive == advance \o <<Ev("tls13_derive_application_secrets", "")>>
    IN
    IF ~ssl_check_message_type(msg, "finished")
      THEN Reject(h, <<>>, "unexpected_message")
    ELSE IF ~msg.valid THEN Reject(h, <<>>, "decrypt_error")
    ELSE IF fail = "ssl_hash_message" THEN Fail(h, <<>>)
    ELSE IF fail = "tls13_advance_key_schedule" THEN Fail(h, hash)
    ELSE IF fail = "tls13_derive_application_secrets" THEN Fail(h, advance)
    ELSE Ok([h EXCEPT !.tls13_state = state_send_end_of_early_data],
            derive \o <<EvMsg("next_message", msg)>>)

\* do_send_end_of_early_data that leaves the write key alone.
do_send_end_of_early_data_no_key(h, q, fail) ==
  LET h1 == IF h.early_data_accepted THEN [h EXCEPT !.can_early_write = FALSE] ELSE h
      end == IF ~h.early_data_accepted THEN <<>>
             ELSE IF ssl_is_draft21(h.version)
               THEN <<Ev("add_message", "end_of_early_data")>>
             ELSE <<Ev("add_alert", "end_of_early_data")>>
  IN
  IF h.early_data_accepted /\ fail = "end_of_early_data" THEN Fail(h1, <<>>)
  ELSE Ok([h1 EXCEPT !.tls13_state = state_send_client_certificate], end)

do_send_end_of_early_data(h, q, fail) ==
  LET h1 == IF h.early_data_accepted THEN [h EXCEPT !.can_early_write = FALSE] ELSE h
      end == IF ~h.early_data_accepted THEN <<>>
             ELSE IF ssl_is_draft21(h.version)
               THEN <<Ev("add_message", "end_of_early_data")>>
             ELSE <<Ev("add_alert", "end_of_early_data")>>
  IN
  IF h.early_data_accepted /\ fail = "end_of_early_data" THEN Fail(h1, <<>>)
  ELSE IF h.early_data_offered /\ fail = "tls13_set_traffic_key" THEN Fail(h1, end)
  ELSE Ok([h1 EXCEPT !.tls13_state = state_send_client_certificate],
          IF h.early_data_offered
            THEN end \o <<Ev("tls13_set_traffic_key", "seal client_handshake_secret")>>
            ELSE end)

do_send_client_certificate_to_done(h, q, fail, cert_cb) ==
  Ok([h EXCEPT !.tls13_state = state_done], <<>>)

\* cert_cb is what ssl->cert->cert_cb answers and whether a certificate is
\* configured once it ran ("ok" also stands for no callback being set).
do_send_client_certificate(h, q, fail, cert_cb) ==
  LET h1 == [h EXCEPT !.has_certificate = (cert_cb = "ok with certificate")] IN
  IF ~h.cert_request
    THEN Ok([h EXCEPT !.tls13_state = state_complete_second_flight], <<>>)
  ELSE IF cert_cb = "error" THEN Callback(h, <<>>, "error", "internal_error")
  ELSE IF cert_cb = "retry"
    THEN Callback([h EXCEPT !.tls13_state = state_send_client_certificate],
                  <<>>, "x509_lookup", NoAlert)
  ELSE IF fail = "tls13_add_certificate" THEN Fail(h1, <<>>)
  ELSE Ok([h1 EXCEPT !.tls13_state = state_send_client_certificate_verify],
          <<Ev("add_message", "certificate")>>)

\* sign is what tls13_add_certificate_verify answers.
do_send_client_certificate_verify(h, q, fail, sign) ==
  IF ~h.has_certificate
    THEN Ok([h EXCEPT !.tls13_state = state_complete_second_flight], <<>>)
  ELSE IF sign = "ssl_private_key_success"
    THEN Ok([h EXCEPT !.tls13_state = state_complete_second_flight],
            <<Ev("add_message", "certificate_verify")>>)
  ELSE IF sign = "ssl_private_key_retry"
    THEN Callback([h EXCEPT !.tls13_state = state_send_client_certificate_verify],
                  <<>>, "private_key_operation", NoAlert)
  ELSE Callback(h, <<>>, "error", NoAlert)

\* ssl_do_channel_id_callback: key is what channel_id_cb hands over. It is
\* not asked when a key is already set.
ssl_do_channel_id_callback(h, key) ==
  IF h.tlsext_channel_id_private \/ key = "no key" THEN [ret |-> 1, hs |-> h]
  ELSE IF key = "key" THEN [ret |-> 1, hs |-> [h EXCEPT !.tlsext_channel_id_private = TRUE]]
  ELSE [ret |-> 0, hs |-> h]

do_complete_second_flight(h, q, fail, key) ==
  LET cb == ssl_do_channel_id_callback(h, key)
      h1 == IF h.tlsext_channel_id_valid THEN cb.hs ELSE h
      channel_id == IF h.tlsext_channel_id_valid
                      THEN <<Ev("add_message", "channel_id")>> ELSE <<>>
      finished == channel_id \o <<Ev("add_message", "finished")>>
      open == finished \o <<Ev("tls13_set_traffic_key", "open server_traffic_secret_0")>>
      seal == open \o <<Ev("tls13_set_traffic_key", "seal client_traffic_secret_0")>>
      resumption == seal \o <<Ev("tls13_derive_resumption_secret", "")>>
  IN
  IF h.tlsext_channel_id_valid /\ cb.ret = 0
    THEN Callback([h EXCEPT !.tls13_state = state_complete_second_flight],
                  <<>>, "error", NoAlert)
  ELSE IF h.tlsext_channel_id_valid /\ ~h1.tlsext_channel_id_private
    THEN Callback(h1, <<>>, "channel_id_lookup", NoAlert)
  ELSE IF h.tlsext_channel_id_valid /\ fail = "tls1_write_channel_id" THEN Fail(h1, <<>>)
  ELSE IF fail = "tls13_add_finished" THEN Fail(h1, channel_id)
  ELSE IF fail = "tls13_set_traffic_key" THEN Fail(h1, finished)
  ELSE IF fail = "tls13_set_traffic_key seal" THEN Fail(h1, open)
  ELSE IF fail = "tls13_derive_resumption_secret" THEN Fail(h1, seal)
  ELSE Wait([h1 EXCEPT !.tls13_state = state_done], resumption, "flush")

(***************************************************************************)
(* tls13_client_handshake and its caller. drv is the driver's position:    *)
(* pc is "running" inside the while loop and "idle" outside of the call;   *)
(* wait, alert and cause are the last handler's return value, the alert it *)
(* sent and the cause of an error; handler is the state whose handler ran  *)
(* last, msg the message it saw at the head of the queue and loglen the    *)
(* length of log when it started.                                          *)
(***************************************************************************)
NoMsg == Msg("none")

\* The client's configuration when the driver is first called: the first
\* ClientHello is out. Early data is offered only with a resumable session.
InitHS ==
  /\ \E version \in Versions, session \in Sessions, early \in BOOLEAN,
        channel_id \in BOOLEAN :
       /\ early => session = "ok"
       /\ hs = NewHandshake(version, session, early, channel_id)
  /\ queue = <<>>
  /\ log = <<>>
  /\ drv = [pc |-> "idle", wait |-> "none", alert |-> NoAlert, cause |-> "none",
            handler |-> state_read_hello_retry_request, msg |-> NoMsg, loglen |-> 0]
  /\ buf = <<>>
  /\ cbs = CBS_init(0, 0)
  /\ out = NoOut
  /\ last = [op |-> "CBS_init", arg |-> 0, ret |-> 1, pre |-> cbs, val |-> U32Zero]
  /\ hello = [count |-> 0]
  /\ scan = [decoded |-> 0]
  /\ ticket = [processed |-> 0]
  /\ cbb = [ops |-> 0]

\* The messages the record layer has handed over so far, plus one.
NextId == 1 + Cardinality({i \in DOMAIN log : log[i].e = "next_message"})

\* The states whose handlers read the message queue, or lead to one that does
\* without the client's doing anything the peer could wait for.
ReadStates == state_read_hello_retry_request..state_read_server_finished

\* The message types whose body some handler can come to parse when the
\* message arrives in the given state: the handler of that state, and the
\* handlers it hands an unconsumed message on to.
Examined(state) ==
  IF state <= state_read_server_hello THEN {"hello_retry_request", "server_hello"}
  ELSE IF state = state_read_encrypted_extensions THEN {"encrypted_extensions"}
  ELSE IF state = state_read_certificate_request
    THEN {"certificate_request", "certificate", "finished"}
  ELSE IF state = state_read_server_certificate THEN {"certificate"}
  ELSE IF state = state_read_server_certificate_verify THEN {"certificate_verify"}
  ELSE {"finished"}

\* A message of any other type is only looked at for its type, so one message
\* stands for all of that type.
Deliverable(state) ==
  {m \in Messages : m.type \in Examined(state) \/ m = Msg(m.type)}

\* The record layer completes the next handshake message. get_message shows
\* only the head of the queue, so one message at a time is enough.
Deliver ==
  /\ queue = <<>>
  /\ drv.wait # "error"
  /\ hs.tls13_state \in ReadStates
  /\ \E m \in Deliverable(hs.tls13_state) : queue' = <<[m EXCEPT !.id = NextId]>>
  /\ UNCHANGED <<hs, log, drv, cbsVars, otherVars>>

\* A caller that runs the driver again whatever it returned, short of ok.
Enter_after_error ==
  /\ drv.pc = "idle"
  /\ drv.wait # "ok"
  /\ drv' = [drv EXCEPT !.pc = "running"]
  /\ hs' = IF drv.wait = "early_data_rejected"
             THEN [hs EXCEPT !.in_early_data = FALSE] ELSE hs
  /\ UNCHANGED <<queue, log, cbsVars, otherVars>>

\* The caller runs the handshake: at first, and again once what the last
\* return value asked for has happened. It never comes back after an error
\* or after the handshake completed; after early_data_rejected it has left
\* early data behind.
Enter ==
  /\ drv.pc = "idle"
  /\ drv.wait \notin {"error", "ok"}
  /\ drv' = [drv EXCEPT !.pc = "running"]
  /\ hs' = IF drv.wait = "early_data_rejected"
             THEN [hs EXCEPT !.in_early_data = FALSE] ELSE hs
  /\ UNCHANGED <<queue, log, cbsVars, otherVars>>

\* while (hs->tls13_state != state_done) is false: return ssl_hs_ok.
ReturnOk ==
  /\ drv.pc = "running"
  /\ hs.tls13_state = state_done
  /\ drv' = [drv EXCEPT !.pc = "idle", !.wait = "ok"]
  /\ UNCHANGED <<hs, queue, log, cbsVars, otherVars>>

Consumes(evs) == \E i \in DOMAIN evs : evs[i].e = "next_message"

\* One turn of the loop: the handler of state ran with result r.
Handle(state, r) ==
  /\ drv.pc = "running"
  /\ hs.tls13_state = state
  /\ hs' = r.hs
  /\ log' = log \o r.evs
  /\ queue' = IF Consumes(r.evs) THEN Tail(queue) ELSE queue
  /\ drv' = [pc |-> IF r.ret = "ok" THEN "running" ELSE "idle",
             wait |-> r.ret, alert |-> r.alert, cause |-> r.cause,
             handler |-> state,
             msg |-> IF queue = <<>> THEN NoMsg ELSE Head(queue),
             loglen |-> Len(log)]
  /\ UNCHANGED <<cbsVars, otherVars>>

ReadHelloRetryRequest ==
  \E fail \in {"none", "add_change_cipher_spec", "transcript", "cookie",
               "ssl_hash_message"} :
    Handle(state_read_hello_retry_request,
           do_read_hello_retry_request(hs, queue, fail))

SendSecondClientHello ==
  \E fail \in {"none", "set_write_state", "ssl_write_client_hello"} :
    Handle(state_send_second_client_hello,
           do_send_second_client_hello(hs, queue, fail))

ReadServerHello ==
  \E fail \in {"none", "SSL_SESSION_dup", "ssl_get_new_session",
               "tls13_init_key_schedule", "Finish", "tls13_advance_key_schedule",
               "ssl_hash_message", "tls13_derive_handshake_secrets",
               "tls13_set_traffic_key", "add_change_cipher_spec",
               "tls13_set_traffic_key seal"} :
    Handle(state_read_server_hello, do_read_server_hello(hs, queue, fail))

ReadEncryptedExtensions ==
  \E fail \in {"none", "BUF_memdup", "ssl_hash_message"} :
    Handle(state_read_encrypted_extensions,
           do_read_encrypted_extensions(hs, queue, fail))

ReadCertificateRequest ==
  \E fail \in {"none", "ca_names", "ssl_hash_message"} :
    Handle(state_read_certificate_request,
           do_read_certificate_request(hs, queue, fail))

ReadServerCertificate ==
  \E fail \in {"none", "tls13_process_certificate", "ssl_hash_message"} :
    Handle(state_read_server_certificate,
           do_read_server_certificate(hs, queue, fail))

ReadServerCertificateVerify ==
  \E fail \in {"none", "ssl_hash_message"},
     verify \in {"ssl_verify_ok", "ssl_verify_invalid", "ssl_verify_retry"} :
    Handle(state_read_server_certificate_verify,
           do_read_server_certificate_verify(hs, queue, fail, verify))

ReadServerFinished ==
  \E fail \in {"none", "ssl_hash_message", "tls13_advance_key_schedule",
               "tls13_derive_application_secrets"} :
    Handle(state_read_server_finished, do_read_server_finished(hs, queue, fail))

SendEndOfEarlyData ==
  \E fail \in {"none", "end_of_early_data", "tls13_set_traffic_key"} :
    Handle(state_send_end_of_early_data,
           do_send_end_of_early_data(hs, queue, fail))

SendClientCertificate ==
  \E fail \in {"none", "tls13_add_certificate"},
     cert_cb \in {"ok with certificate", "ok without certificate", "error", "retry"} :
    Handle(state_send_client_certificate,
           do_send_client_certificate(hs, queue, fail, cert_cb))

SendClientCertificateVerify ==
  \E sign \in {"ssl_private_key_success", "ssl_private_key_retry",
               "ssl_private_key_failure"} :
    Handle(state_send_client_certificate_verify,
           do_send_client_certificate_verify(hs, queue, "none", sign))

CompleteSecondFlight ==
  \E fail \in {"none", "tls1_write_channel_id", "tls13_add_finished",
               "tls13_set_traffic_key", "tls13_set_traffic_key seal",
               "tls13_derive_resumption_secret"},
     key \in {"no key", "key", "bad key"} :
    Handle(state_complete_second_flight,
           do_complete_second_flight(hs, queue, fail, key))

NextHS ==
  \/ Deliver
  \/ Enter
  \/ ReturnOk
  \/ ReadHelloRetryRequest
  \/ SendSecondClientHello
  \/ ReadServerHello
  \/ ReadEncryptedExtensions
  \/ ReadCertificateRequest
  \/ ReadServerCertificate
  \/ ReadServerCertificateVerify
  \/ ReadServerFinished
  \/ SendEndOfEarlyData
  \/ SendClientCertificate
  \/ SendClientCertificateVerify
  \/ CompleteSecondFlight

SpecHS == InitHS /\ [][NextHS]_vars

(***************************************************************************)
(* Claims about the cursor (checked under SpecCBS).                        *)
(***************************************************************************)

\* The big-endian value of the w bytes of buf that follow offset data.
RECURSIVE BigEndian(_, _)
BigEndian(data, w) ==
  IF w = 0 THEN 0 ELSE BigEndian(data, w - 1) * 256 + buf[data + w]

FixedWidthOps ==
  {"CBS_skip", "CBS_get_bytes", "CBS_copy_bytes",
   "CBS_get_u8", "CBS_get_u16", "CBS_get_u24", "CBS_get_u32"}

LengthPrefixedOps ==
  {"CBS_get_u8_length_prefixed", "CBS_get_u16_length_prefixed",
   "CBS_get_u24_length_prefixed"}

SubCursorOps ==
  LengthPrefixedOps \cup
  {"CBS_get_bytes", "CBS_get_any_asn1_element", "CBS_get_any_asn1",
   "CBS_get_asn1", "CBS_get_asn1_element"}

\* C1: whenever a getter fails (returns 0), the cursor's position and
\* remaining length are exactly what they were before the call.
C1_FailedGetterLeavesCursor ==
  last.ret = 0 => (cbs.data = last.pre.data /\ cbs.len = last.pre.len)

\* C2: every successful read consumes exactly the bytes it returns: a
\* fixed-width read of n bytes advances the position by n and shrinks the
\* length by n (and an integer read returns the big-endian value of those n
\* bytes); a length-prefixed read of width w whose prefix decodes to L advances
\* by w + L and yields the sub-cursor of the L bytes after the prefix;
\* CBS_get_last_u8 keeps the position, shrinks the length by 1 and returns
\* the last visible byte.
C2_SuccessfulReadConsumesExactly ==
  last.ret = 1 =>
    /\ last.op \in FixedWidthOps =>
         /\ cbs.data = last.pre.data + last.arg
         /\ cbs.len = last.pre.len - last.arg
    /\ last.op = "CBS_get_bytes" => out = [data |-> last.pre.data, len |-> last.arg]
    /\ last.op \in {"CBS_get_u8", "CBS_get_u16", "CBS_get_u24"} =>
         last.val.hi * 65536 + last.val.lo = BigEndian(last.pre.data, last.arg)
    /\ last.op = "CBS_get_u32" =>
         /\ last.val.hi = BigEndian(last.pre.data, 2)
         /\ last.val.lo = BigEndian(last.pre.data + 2, 2)
    /\ last.op \in LengthPrefixedOps =>
         LET w == last.arg
             L == BigEndian(last.pre.data, w)
         IN /\ cbs.data = last.pre.data + w + L
            /\ cbs.len = last.pre.len - (w + L)
            /\ out = [data |-> last.pre.data + w, len |-> L]
    /\ last.op = "CBS_get_last_u8" =>
         /\ cbs.data = last.pre.data
         /\ cbs.len = last.pre.len - 1
         /\ last.val = [hi |-> 0, lo |-> buf[last.pre.data + last.pre.len]]

\* A u8-length-prefixed read succeeded on a cursor that had already advanced
\* and handed out a one-byte body.
C2_Witness ==
  /\ last.op = "CBS_get_u8_length_prefixed"
  /\ last.ret = 1
  /\ last.pre.data > 0
  /\ out.len = 1

\* C3: after any sequence of getters the visible window [data, data + len)
\* lies inside [0, L]; a sub-cursor handed out by a successful read lies
\* inside the parent's window as it was before that read; and no call makes
\* the remaining length larger.
C3_WindowContained ==
  /\ 0 <= cbs.data
  /\ 0 <= cbs.len
  /\ cbs.data + cbs.len <= Len(buf)
  /\ last.pre.data <= cbs.data
  /\ cbs.data + cbs.len <= last.pre.data + last.pre.len
  /\ cbs.len <= last.pre.len
  /\ (last.ret = 1 /\ last.op \in SubCursorOps) =>
       /\ last.pre.data <= out.data
       /\ 0 <= out.len
       /\ out.data + out.len <= last.pre.data + last.pre.len

\* A successful CBS_get_bytes, after earlier getters moved the cursor, handed
\* out all the bytes that remained.
C3_Witness ==
  /\ last.op = "CBS_get_bytes"
  /\ last.ret = 1
  /\ last.pre.data > 0
  /\ last.arg = 2
  /\ cbs.len = 0

(***************************************************************************)
(* Claims about the TLS 1.3 client handshake (checked under SpecHS).       *)
(***************************************************************************)
HashIdx == {i \in DOMAIN log : log[i].e = "ssl_hash_message"}

NextIdx == {i \in DOMAIN log : log[i].e = "next_message"}

\* The places in log of what the last handler invocation did.
ByLastHandler == (drv.loglen + 1)..Len(log)

\* The last handler invocation left the message it saw at the head of the
\* queue and did not hash it.
LeftMessageAlone ==
  /\ queue = <<drv.msg>>
  /\ \A i \in HashIdx \cup NextIdx : log[i].id # drv.msg.id

\* msg is what do_read_hello_retry_request takes for a message other than a
\* retry request.
NotARetryRequest(msg, version) ==
  IF ssl_is_draft22(version)
    THEN /\ msg.type = "server_hello"
         /\ msg.decodes /\ ~ExtensionsEmpty(msg)
         /\ ~msg.hrr_random
    ELSE msg.type # "hello_retry_request"

\* C4: when the message seen in ReadHelloRetryRequest is not a retry request
\* (draft-22: a ServerHello without the sentinel random; otherwise: any type
\* but HelloRetryRequest), the handler moves to ReadServerHello and returns ok
\* with the message still at the head of the queue and unhashed;
\* ReadServerHello then finds that same message, and when it accepts it the
\* message is in the transcript exactly once and was consumed exactly once.
C4_NonRetryHandedToServerHello ==
  /\ (/\ drv.handler = state_read_hello_retry_request
      /\ drv.msg # NoMsg
      /\ NotARetryRequest(drv.msg, hs.version)
      /\ drv.cause # "internal")
     => (/\ drv.wait = "ok"
         /\ hs.tls13_state = state_read_server_hello
         /\ LeftMessageAlone)
  /\ (drv.handler = state_read_server_hello /\ ~hs.received_hello_retry_request)
     => (/\ drv.msg # NoMsg
         /\ drv.msg.id = 1
         /\ drv.wait # "read_message"
         /\ drv.wait = "ok" =>
              /\ hs.tls13_state = state_read_encrypted_extensions
              /\ Cardinality({i \in HashIdx : log[i].id = 1}) = 1
              /\ Cardinality({i \in NextIdx : log[i].id = 1}) = 1
              /\ \A i \in DOMAIN queue : queue[i].id > 1)

C4_Witness ==
  /\ drv.handler = state_read_server_hello
  /\ drv.wait = "ok"
  /\ ~hs.received_hello_retry_request
  /\ ssl_is_draft22(hs.version)
  /\ drv.msg.key_share = "X25519"

SuspendSignals ==
  {"read_message", "x509_lookup", "private_key_operation", "channel_id_lookup",
   "certificate_verify"}

\* C5: when a handler returned a suspend signal (read_message, x509_lookup,
\* private_key_operation, channel_id_lookup, certificate_verify), the state
\* is still that handler's state, the message it saw is still at the head of
\* the queue, and the invocation added nothing to the flight or the
\* transcript, so the next call of the driver runs the same handler.
C5_SuspendKeepsState ==
  drv.wait \in SuspendSignals =>
    /\ hs.tls13_state = drv.handler
    /\ Len(log) = drv.loglen
    /\ drv.msg # NoMsg => queue = <<drv.msg>>

C5_Witness ==
  /\ drv.wait = "certificate_verify"
  /\ drv.pc = "idle"
  /\ drv.msg.type = "certificate_verify"
  /\ hs.tls13_state = state_read_server_certificate_verify

\* C6: tls13_state never moves to an earlier state of the enumeration, and
\* state_done is only entered from state_complete_second_flight.
C6_StateOnlyAdvances ==
  [][/\ hs'.tls13_state >= hs.tls13_state
     /\ (hs'.tls13_state = state_done /\ hs.tls13_state # state_done)
          => hs.tls13_state = state_complete_second_flight]_vars

C6_Witness ==
  /\ hs.tls13_state = state_done
  /\ drv.handler = state_complete_second_flight
  /\ hs.received_hello_retry_request
  /\ hs.cert_request

\* C7: every message a read state consumed was hashed exactly once, while it
\* was the head of the queue (after the handler's checks, before
\* next_message); the transcript holds the messages in their order of
\* arrival; and a handler that returned error because of the message, or
\* passed the message on without consuming it, did not hash it.
C7_HashedOnceInOrder ==
  /\ \A n \in NextIdx :
       /\ Cardinality({h \in HashIdx : log[h].id = log[n].id}) = 1
       /\ \A h \in HashIdx : log[h].id = log[n].id => h < n
  /\ \A h \in HashIdx :
       log[h].id = 1 + Cardinality({n \in NextIdx : n < h})
  /\ \A h1, h2 \in HashIdx :
       /\ h1 < h2 => log[h1].id < log[h2].id
       /\ log[h1].id = log[h2].id => h1 = h2
  /\ (drv.wait = "error" /\ drv.cause # "internal")
       => ByLastHandler \cap HashIdx = {}
  /\ (ByLastHandler \cap NextIdx = {} /\ drv.cause # "internal")
       => ByLastHandler \cap HashIdx = {}

C7_Witness ==
  /\ Cardinality(HashIdx) = 7
  /\ Cardinality(NextIdx) = 7
  /\ hs.tls13_state = state_send_end_of_early_data

KeyScheduleIdx(e, a) == {i \in DOMAIN log : log[i].e = e /\ log[i].a = a}

InitIdx == {i \in DOMAIN log : log[i].e = "tls13_init_key_schedule"}

\* C8: ReadServerHello initialises the key schedule with the PSK when the
\* session is resumed and with zeroes otherwise, then advances it with the
\* ECDHE secret, then hashes the ServerHello, then derives the handshake
\* secrets; the ECDHE secret never goes in before the initialisation, and the
\* handshake secrets are never derived before both went in.
C8_KeyScheduleOrder ==
  LET dhe == KeyScheduleIdx("tls13_advance_key_schedule", "dhe")
      derive == KeyScheduleIdx("tls13_derive_handshake_secrets", "")
  IN
  /\ \A i \in InitIdx : log[i].a = IF hs.session_reused THEN "psk" ELSE "zeroes"
  /\ \A a \in dhe : \E i \in InitIdx : i < a
  /\ \A d \in derive :
       \E i \in InitIdx, a \in dhe, h \in HashIdx :
         /\ i < a /\ a < h /\ h < d
         /\ log[h].a = "server_hello"
  /\ (drv.handler = state_read_server_hello /\ drv.wait = "ok")
       => /\ Len(log) >= drv.loglen + 4
          /\ log[drv.loglen + 1].e = "tls13_init_key_schedule"
          /\ log[drv.loglen + 2] = Ev("tls13_advance_key_schedule", "dhe")
          /\ log[drv.loglen + 3] = EvMsg("ssl_hash_message", drv.msg)
          /\ log[drv.loglen + 4].e = "tls13_derive_handshake_secrets"

C8_Witness ==
  /\ drv.handler = state_read_server_hello
  /\ drv.wait = "ok"
  /\ hs.session_reused
  /\ log[drv.loglen + 1] = Ev("tls13_init_key_schedule", "psk")

\* C9 as the code has it: when the session was resumed, ReadCertificateRequest
\* reads no message (it returns ok whether or not one has arrived, and leaves
\* queue, flight and transcript alone) and moves directly to
\* ReadServerFinished.
C9_ResumedSkipsToFinished ==
  (drv.handler = state_read_certificate_request /\ hs.session_reused)
    => /\ drv.wait = "ok"
       /\ hs.tls13_state = state_read_server_finished
       /\ Len(log) = drv.loglen
       /\ drv.msg # NoMsg => queue = <<drv.msg>>

\* C9 as claimed: when the session was resumed, ReadCertificateRequest reads
\* no message and moves directly to ReadServerCertificate.
C9_ResumedSkipsToCertificate ==
  (drv.handler = state_read_certificate_request /\ hs.session_reused)
    => /\ drv.wait = "ok"
       /\ hs.tls13_state = state_read_server_certificate
       /\ Len(log) = drv.loglen

C9_Witness ==
  /\ drv.handler = state_read_certificate_request
  /\ hs.session_reused
  /\ drv.msg = NoMsg
  /\ hs.tls13_state = state_read_server_finished

\* msg is what do_read_hello_retry_request takes for a retry request, and it
\* has neither a key_share nor a cookie.
EmptyRetryRequest(msg, version) ==
  /\ IF ssl_is_draft22(version)
       THEN /\ msg.type = "server_hello"
            /\ msg.decodes /\ ~ExtensionsEmpty(msg)
            /\ msg.hrr_random
       ELSE msg.type = "hello_retry_request" /\ msg.decodes
  /\ msg.key_share = "none"
  /\ msg.cookie = "none"

\* The handler turned the message down and left everything as it was.
RetryRequestRejected ==
  /\ drv.wait = "error"
  /\ hs.tls13_state = state_read_hello_retry_request
  /\ ~hs.received_hello_retry_request
  /\ LeftMessageAlone

RetryRequest(msg, version) ==
  IF ssl_is_draft22(version)
    THEN /\ msg.type = "server_hello"
         /\ msg.decodes /\ ~ExtensionsEmpty(msg)
         /\ msg.hrr_random
    ELSE msg.type = "hello_retry_request" /\ msg.decodes

\* The last handler invocation was do_read_hello_retry_request on a retry
\* request whose key_share names a group.
RetryNamedGroup ==
  /\ drv.handler = state_read_hello_retry_request
  /\ drv.msg # NoMsg
  /\ RetryRequest(drv.msg, hs.version)
  /\ drv.msg.key_share \notin {"none", "malformed"}

\* The group the retry request names is one the client cannot be asked for.
BadRetryGroup ==
  drv.msg.key_share = OfferedGroup \/ drv.msg.key_share \notin SupportedGroups

\* A check that precedes those of the key_share group turns the message down.
RejectedBeforeGroupCheck ==
  \/ ~drv.msg.ext_ok
  \/ ~ssl_is_draft22(hs.version) /\ drv.msg.supported_versions
  \/ drv.msg.cookie = "malformed"

\* C11 as the code has it: a HelloRetryRequest naming a group is accepted
\* only if the group is supported and is not the offered one; naming the
\* offered or an unsupported group gives error with the offered key share and
\* retry_group unchanged, and with illegal_parameter unless an earlier check
\* (extension parser, supported_versions, cookie) turned the message down;
\* the key share is discarded and retry_group set only for a group that
\* passed, and then the message is accepted unless hashing it fails.
C11_RetryGroupChecked ==
  RetryNamedGroup =>
    /\ hs.tls13_state = state_send_second_client_hello
         => /\ ~BadRetryGroup
            /\ hs.key_share = "null"
            /\ hs.retry_group = drv.msg.key_share
    /\ BadRetryGroup
         => /\ drv.wait = "error"
            /\ hs.tls13_state = state_read_hello_retry_request
            /\ hs.key_share = OfferedGroup
            /\ hs.retry_group = "none"
            /\ (drv.cause # "internal" /\ ~RejectedBeforeGroupCheck)
                 => drv.alert = "illegal_parameter"
    /\ (hs.key_share # OfferedGroup \/ hs.retry_group # "none")
         => /\ ~BadRetryGroup
            /\ \/ hs.tls13_state = state_send_second_client_hello
               \/ drv.wait = "error" /\ drv.cause = "internal"

\* C11 as claimed: naming the offered or an unsupported group gives error
\* with illegal_parameter, key share and retry_group unchanged; and only on
\* acceptance is the key share discarded and retry_group set.
C11_RetryGroupIllegalParameter ==
  RetryNamedGroup =>
    /\ (BadRetryGroup /\ drv.cause # "internal")
         => /\ drv.wait = "error"
            /\ drv.alert = "illegal_parameter"
            /\ hs.key_share = OfferedGroup
            /\ hs.retry_group = "none"
    /\ (hs.key_share # OfferedGroup \/ hs.retry_group # "none")
         => hs.tls13_state = state_send_second_client_hello

C11_Witness ==
  /\ RetryNamedGroup
  /\ drv.msg.key_share = OfferedGroup
  /\ ~RejectedBeforeGroupCheck
  /\ drv.alert = "illegal_parameter"
  /\ hs.key_share = OfferedGroup

(***************************************************************************)
(* The ClientHello extension block (t1_lib.cc). An extension is its type,  *)
(* the length of its body and, for key_share, the entries of its body; the *)
(* block is the sequence of extensions in the order they were written.     *)
(* The handshake object is the one of the handshake above, with the        *)
(* configuration and the fields the add_clienthello callbacks read.        *)
(***************************************************************************)
Extension(type, len, body) == [type |-> type, len |-> len, body |-> body]

\* CBB_len(&extensions): two bytes of type, two of length, then the body.
RECURSIVE CBB_len(_)
CBB_len(extensions) ==
  IF extensions = <<>> THEN 0
  ELSE 4 + Head(extensions).len + CBB_len(Tail(extensions))

\* The bytes SSLKeyShare::Offer writes for a group; the GREASE share has one.
KeyExchangeLen(group) ==
  IF group = "X25519" THEN 32
  ELSE IF group = "P-256" THEN 65
  ELSE IF group = "P-384" THEN 97
  ELSE 1

\* One KeyShareEntry: the group and which SSLKeyShare::Create made the key
\* (0 for the GREASE entry, which has no key).
KeyShareEntry(group, made) == [group |-> group, made |-> made]

\* CBB_len(&kse_bytes): two bytes of group, two of length, the key exchange.
RECURSIVE KeyShareBytesLen(_)
KeyShareBytesLen(entries) ==
  IF entries = <<>> THEN 0
  ELSE 4 + KeyExchangeLen(Head(entries).group) + KeyShareBytesLen(Tail(entries))

\* tls1_get_grouplist(ssl): the configured groups, most preferred first.
tls1_get_grouplist == <<"X25519", "P-256">>

\* The number of signature algorithms tls12_add_verify_sigalgs writes: the
\* default list without Ed25519.
NumVerifySigalgs == 9

\* The number of versions ssl_add_supported_versions writes.
NumSupportedVersions == 3

\* EVP_MD_size(ssl_session_get_digest(ssl->session)).
BinderLen == IF algorithm_prf(SessionCipher) = "SHA384" THEN 48 ELSE 32

\* The length of the one custom extension an application registered.
CustomExtensionLen == 3

\* ssl_session_protocol_version(ssl->session) >= TLS1_3_VERSION
SessionIsTls13(h) == h.session # "none" /\ h.session_tls13

\* What an add_clienthello callback did: the handshake object it leaves and
\* the extension it wrote, if any.
Added(h, exts) == [hs |-> h, exts |-> exts]

\* The protocol versions in their order: SSL3_VERSION < TLS1_VERSION <
\* TLS1_1_VERSION < TLS1_2_VERSION < TLS1_3_VERSION.
VersionNum(v) ==
  CASE v = "SSL3" -> 0
    [] v = "TLS1" -> 1
    [] v = "TLS1_1" -> 2
    [] v = "TLS1_2" -> 3
    [] v = "TLS1_3" -> 4

\* hs->max_version < TLS1_3_VERSION
MaxBelowTls13(h) == VersionNum(h.max_version) < VersionNum("TLS1_3")

dont_add(h) == Added(h, <<>>)

ext_sni_add_clienthello(h) ==
  IF h.hostname_len < 0 THEN dont_add(h)   \* ssl->tlsext_hostname == NULL
  ELSE Added(h, <<Extension("server_name", 5 + h.hostname_len, <<>>)>>)

ext_ri_add_clienthello(h) ==
  IF h.min_tls13 THEN dont_add(h)
  ELSE Added(h, <<Extension("renegotiate", 1, <<>>)>>)

ext_ems_add_clienthello(h) ==
  IF h.min_tls13 \/ VersionNum(h.max_version) <= VersionNum("SSL3") THEN dont_add(h)
  ELSE Added(h, <<Extension("extended_master_secret", 0, <<>>)>>)

ext_ticket_add_clienthello(h) ==
  IF h.min_tls13 THEN dont_add(h)
  ELSE LET ticket_len == IF h.session # "none" /\ ~SessionIsTls13(h)
                           THEN h.tlsext_ticklen ELSE 0
       IN Added(h, <<Extension("session_ticket", ticket_len, <<>>)>>)

\* ext_sigalgs_add_clienthello writing whatever the versions offered.
ext_sigalgs_add_clienthello_any_version(h) ==
  Added(h, <<Extension("signature_algorithms", 2 + 2 * NumVerifySigalgs, <<>>)>>)

ext_sigalgs_add_clienthello(h) ==
  IF VersionNum(h.max_version) < VersionNum("TLS1_2") THEN dont_add(h)
  ELSE Added(h, <<Extension("signature_algorithms", 2 + 2 * NumVerifySigalgs, <<>>)>>)

ext_channel_id_add_clienthello(h) ==
  IF ~h.channel_id_enabled \/ h.is_dtls THEN dont_add(h)
  ELSE Added(h, <<Extension("channel_id", 0, <<>>)>>)

ext_ec_point_add_clienthello(h) ==
  IF h.min_tls13 THEN dont_add(h)
  ELSE Added(h, <<Extension("ec_point_formats", 2, <<>>)>>)

ext_psk_key_exchange_modes_add_clienthello(h) ==
  IF MaxBelowTls13(h) THEN dont_add(h)
  ELSE Added(h, <<Extension("psk_key_exchange_modes", 2, <<>>)>>)

\* ext_early_data_add_clienthello without the test of
\* hs->received_hello_retry_request.
ext_early_data_add_clienthello_again(h) ==
  IF ~h.enable_early_data \/ ~SessionIsTls13(h) THEN dont_add(h)
  ELSE Added([h EXCEPT !.early_data_offered = TRUE],
             <<Extension("early_data", 0, <<>>)>>)

ext_early_data_add_clienthello(h) ==
  IF \/ ~h.enable_early_data
     \/ ~SessionIsTls13(h)
     \/ h.received_hello_retry_request
    THEN dont_add(h)
  ELSE Added([h EXCEPT !.early_data_offered = TRUE],
             <<Extension("early_data", 0, <<>>)>>)

\* ext_key_share_add_clienthello repeating the saved key shares in every
\* second ClientHello, whether or not the retry request named a group.
ext_key_share_add_clienthello_repeat(h) ==
  LET grease == IF h.grease_enabled THEN <<KeyShareEntry("GREASE", 0)>> ELSE <<>>
      entry == KeyShareEntry(tls1_get_grouplist[1], h.key_shares_created + 1)
      kse_bytes == grease \o <<entry>>
  IN
  IF h.received_hello_retry_request
    THEN Added([h EXCEPT !.key_share_bytes = <<>>],
               <<Extension("key_share", 2 + KeyShareBytesLen(h.key_share_bytes),
                           h.key_share_bytes)>>)
  ELSE Added([h EXCEPT !.key_share = tls1_get_grouplist[1],
                       !.key_shares_created = @ + 1,
                       !.key_share_bytes = kse_bytes],
             <<Extension("key_share", 2 + KeyShareBytesLen(kse_bytes), kse_bytes)>>)

ext_key_share_add_clienthello(h) ==
  LET group_id == IF h.received_hello_retry_request
                    THEN h.retry_group ELSE tls1_get_grouplist[1]
      grease == IF ~h.received_hello_retry_request /\ h.grease_enabled
                  THEN <<KeyShareEntry("GREASE", 0)>> ELSE <<>>
      entry == KeyShareEntry(group_id, h.key_shares_created + 1)
      kse_bytes == grease \o <<entry>>
      created == [h EXCEPT !.key_share = group_id, !.key_shares_created = @ + 1]
  IN
  IF MaxBelowTls13(h) THEN dont_add(h)
  ELSE IF h.received_hello_retry_request /\ h.retry_group = "none"
    THEN Added([h EXCEPT !.key_share_bytes = <<>>],
               <<Extension("key_share", 2 + KeyShareBytesLen(h.key_share_bytes),
                           h.key_share_bytes)>>)
  ELSE Added([created EXCEPT !.key_share_bytes =
                IF h.received_hello_retry_request THEN <<>> ELSE kse_bytes],
             <<Extension("key_share", 2 + KeyShareBytesLen(kse_bytes), kse_bytes)>>)

ext_supported_versions_add_clienthello(h) ==
  IF VersionNum(h.max_version) <= VersionNum("TLS1_2") THEN dont_add(h)
  ELSE Added(h, <<Extension("supported_versions",
                       1 + (IF h.grease_enabled THEN 2 ELSE 0)
                         + 2 * NumSupportedVersions, <<>>)>>)

ext_cookie_add_clienthello(h) ==
  IF ~h.cookie THEN dont_add(h)
  ELSE Added([h EXCEPT !.cookie = FALSE],
             <<Extension("cookie", 2 + h.cookie_len, <<>>)>>)

\* The length of ssl->quic_transport_params when the application set them.
QuicTransportParamsLen == 4

ext_quic_transport_params_add_clienthello(h) ==
  IF ~h.quic_transport_params \/ VersionNum(h.max_version) <= VersionNum("TLS1_2")
    THEN dont_add(h)
  ELSE Added(h, <<Extension("quic_transport_parameters", QuicTransportParamsLen, <<>>)>>)

ext_supported_groups_add_clienthello(h) ==
  Added(h, <<Extension("supported_groups",
                       2 + (IF h.grease_enabled THEN 2 ELSE 0)
                         + 2 * Len(tls1_get_grouplist), <<>>)>>)

\* kExtensions: the registry, in table order.
kExtensions ==
  <<"renegotiate", "server_name", "extended_master_secret", "session_ticket",
    "signature_algorithms", "status_request", "next_proto_neg",
    "certificate_timestamp", "application_layer_protocol_negotiation",
    "channel_id", "srtp", "ec_point_formats", "key_share",
    "psk_key_exchange_modes", "early_data", "supported_versions", "cookie",
    "dummy_pq_padding", "quic_transport_parameters", "supported_groups",
    "token_binding">>

kNumExtensions == Len(kExtensions)

\* kExtensions[i].add_clienthello(hs, &extensions). The extensions that are
\* written only when an application asked for them (OCSP stapling, NPN, SCT,
\* ALPN, SRTP, dummy PQ padding, Token Binding) are not asked for.
add_clienthello(i, h) ==
  LET type == kExtensions[i] IN
  CASE type = "renegotiate" -> ext_ri_add_clienthello(h)
    [] type = "server_name" -> ext_sni_add_clienthello(h)
    [] type = "extended_master_secret" -> ext_ems_add_clienthello(h)
    [] type = "session_ticket" -> ext_ticket_add_clienthello(h)
    [] type = "signature_algorithms" -> ext_sigalgs_add_clienthello(h)
    [] type = "channel_id" -> ext_channel_id_add_clienthello(h)
    [] type = "ec_point_formats" -> ext_ec_point_add_clienthello(h)
    [] type = "key_share" -> ext_key_share_add_clienthello(h)
    [] type = "psk_key_exchange_modes" -> ext_psk_key_exchange_modes_add_clienthello(h)
    [] type = "early_data" -> ext_early_data_add_clienthello(h)
    [] type = "supported_versions" -> ext_supported_versions_add_clienthello(h)
    [] type = "cookie" -> ext_cookie_add_clienthello(h)
    [] type = "quic_transport_parameters" -> ext_quic_transport_params_add_clienthello(h)
    [] type = "supported_groups" -> ext_supported_groups_add_clienthello(h)
    [] OTHER -> dont_add(h)

\* The registry loop writing what the later descriptors add before what the
\* earlier ones add.
RECURSIVE AddRegistry_backwards(_, _)
AddRegistry_backwards(i, h) ==
  IF i > kNumExtensions THEN Added(h, <<>>)
  ELSE LET one == add_clienthello(i, h) IN
       IF one.exts = <<>> THEN AddRegistry_backwards(i + 1, one.hs)
       ELSE LET rest == AddRegistry_backwards(i + 1, [one.hs EXCEPT !.extensions_sent =
                                                        @ \cup {kExtensions[i]}])
            IN Added(rest.hs, rest.exts \o one.exts)

\* The registry loop setting the bit of every descriptor it visits, whether
\* or not the callback wrote bytes.
RECURSIVE AddRegistry_marking_all(_, _)
AddRegistry_marking_all(i, h) ==
  IF i > kNumExtensions THEN Added(h, <<>>)
  ELSE LET one == add_clienthello(i, h)
           marked == [one.hs EXCEPT !.extensions_sent = @ \cup {kExtensions[i]}]
       IN
       IF one.exts = <<>> THEN AddRegistry_marking_all(i + 1, marked)
       ELSE LET rest == AddRegistry_marking_all(i + 1, marked)
            IN Added(rest.hs, one.exts \o rest.exts)

\* The registry loop of ssl_add_clienthello_tlsext from descriptor i on: each
\* callback in table order; a descriptor whose callback wrote bytes gets its
\* bit in hs->extensions.sent.
RECURSIVE AddRegistry(_, _)
AddRegistry(i, h) ==
  IF i > kNumExtensions THEN Added(h, <<>>)
  ELSE LET one == add_clienthello(i, h) IN
       IF one.exts = <<>> THEN AddRegistry(i + 1, one.hs)
       ELSE LET rest == AddRegistry(i + 1, [one.hs EXCEPT !.extensions_sent =
                                                  @ \cup {kExtensions[i]}])
            IN Added(rest.hs, one.exts \o rest.exts)

custom_ext_add_clienthello(h) ==
  IF h.custom_extension THEN <<Extension("custom", CustomExtensionLen, <<>>)>> ELSE <<>>

ext_pre_shared_key_clienthello_length(h) ==
  IF MaxBelowTls13(h) \/ ~SessionIsTls13(h) THEN 0
  ELSE 15 + h.tlsext_ticklen + BinderLen

\* ext_pre_shared_key_add_clienthello. After a HelloRetryRequest it compares
\* the session's hash with that of hs->new_cipher; when no cipher was chosen
\* yet the comparison reads through a null pointer, and null_prf is the hash
\* that read comes up with.
ext_pre_shared_key_add_clienthello(h, null_prf) ==
  LET new_prf == IF h.new_cipher = "null" THEN null_prf ELSE algorithm_prf(h.new_cipher)
  IN
  IF MaxBelowTls13(h) \/ ~SessionIsTls13(h)
    THEN Added([h EXCEPT !.needs_psk_binder = FALSE], <<>>)
  ELSE IF h.received_hello_retry_request /\ algorithm_prf(SessionCipher) # new_prf
    THEN Added([h EXCEPT !.needs_psk_binder = FALSE], <<>>)
  ELSE Added([h EXCEPT !.needs_psk_binder = TRUE],
             <<Extension("pre_shared_key", 11 + h.tlsext_ticklen + BinderLen, <<>>)>>)

\* ssl_get_grease_value(hs, index): the high four bits of the byte of the
\* client random that index names, followed by 0xa, twice: 0x0a0a, 0x1a1a,
\* ..., 0xfafa.
ssl_get_grease_value(h, index) ==
  LET ret == h.grease_seed[index] * 16 + 10 IN ret * 256 + ret

\* a ^ b for two numbers below 2^n
RECURSIVE BitXor(_, _, _)
BitXor(a, b, n) ==
  IF n = 0 THEN 0
  ELSE ((a + b) % 2) + 2 * BitXor(a \div 2, b \div 2, n - 1)

\* The second GREASE extension type taken as the index yields it.
SecondGreaseValue_same(h, grease_ext1) ==
  ssl_get_grease_value(h, "ssl_grease_extension2")

\* grease_ext2 of ssl_add_clienthello_tlsext: the two fake extensions must
\* not have the same value, so XOR to generate a different one.
SecondGreaseValue(h, grease_ext1) ==
  LET grease_ext2 == ssl_get_grease_value(h, "ssl_grease_extension2") IN
  IF grease_ext1 = grease_ext2 THEN BitXor(grease_ext2, 4112, 16) ELSE grease_ext2

\* A fake extension: its type is the GREASE value.
GreaseExtension(type, len, value) == [value |-> value] @@ Extension(type, len, <<>>)

\* The padding that always fills up to 0x200, with no least content.
PaddingExtension_exact(header_len) ==
  IF header_len > 255 /\ header_len < 512
    THEN <<Extension("padding", 512 - header_len - 4, <<>>)>>
  ELSE <<>>

\* The padding extension ssl_add_clienthello_tlsext adds when the ClientHello
\* would otherwise be between 256 and 511 bytes long.
PaddingExtension(header_len) ==
  IF header_len > 255 /\ header_len < 512
    THEN LET padding_len == IF 512 - header_len >= 4 + 1
                              THEN 512 - header_len - 4 ELSE 1
         IN <<Extension("padding", padding_len, <<>>)>>
  ELSE <<>>

\* ssl_add_clienthello_tlsext(hs, out, header_len): the handshake object it leaves and the extension block it wrote.
ssl_add_clienthello_tlsext(h, header_len, null_prf) ==
  \* Don't add extensions for SSLv3 unless doing secure renegotiation.
  IF h.max_version = "SSL3" /\ ~h.send_connection_binding THEN Added(h, <<>>)
  ELSE
  LET init == [h EXCEPT !.extensions_sent = {}, !.tlsext_channel_id_valid = FALSE]
      grease_ext1 == IF h.grease_enabled
                       THEN ssl_get_grease_value(h, "ssl_grease_extension1") ELSE 0
      fake_empty == IF h.grease_enabled
                      THEN <<GreaseExtension("grease_ext1", 0, grease_ext1)>> ELSE <<>>
      registry == AddRegistry(1, init)
      custom == custom_ext_add_clienthello(registry.hs)
      fake_non_empty == IF h.grease_enabled
                          THEN <<GreaseExtension("grease_ext2", 1,
                                                 SecondGreaseValue(h, grease_ext1))>>
                          ELSE <<>>
      extensions == fake_empty \o registry.exts \o custom \o fake_non_empty
      psk_extension_len == ext_pre_shared_key_clienthello_length(registry.hs)
      padding == IF ~h.is_dtls
                   THEN PaddingExtension(header_len + 2 + CBB_len(extensions)
                                           + psk_extension_len)
                   ELSE <<>>
      psk == ext_pre_shared_key_add_clienthello(registry.hs, null_prf)
  IN Added(psk.hs, extensions \o padding \o psk.exts)

(***************************************************************************)
(* Specification SpecCH: a client writes its first ClientHello, the server *)
(* answers with a HelloRetryRequest the client accepts, and the client     *)
(* writes the second ClientHello.                                          *)
(***************************************************************************)
\* strlen(ssl->tlsext_hostname), negative for no hostname.
HostnameLens == {0 - 1, 9, 115, 366, 400}

\* The length of the ClientHello before its extension block.
HeaderLens == {45, 77}

\* ssl->session->tlsext_ticklen of a session that has a ticket.
TicketLens == {16, 208}

\* The length of the cookie of a HelloRetryRequest.
CookieLens == {8}

\* ssl->session and the configuration that depends on it: the session, whether
\* it is a TLS 1.3 session, its ticket length, and whether early data is on.
SessionConfigs ==
  {<<"none", FALSE, 0, FALSE>>, <<"old_version", FALSE, 16, FALSE>>,
   <<"old_version", TRUE, 16, FALSE>>}
  \cup {<<"ok", TRUE, n, e>> : n \in TicketLens, e \in BOOLEAN}

\* The clients: the version the server will choose, whether hs->min_version
\* >= TLS1_3_VERSION, hs->max_version, SSL_is_dtls and whether the
\* application set QUIC transport parameters. Only a client that offers
\* TLS 1.3 depends on the version chosen; a DTLS client offers DTLS 1.0
\* (TLS 1.1) or DTLS 1.2 (TLS 1.2) at most and is no QUIC client.
ClientConfigs ==
  {<<v, min_tls13, "TLS1_3", FALSE, quic>> :
     v \in Versions, min_tls13 \in BOOLEAN, quic \in BOOLEAN}
  \cup {<<"TLS1_3_DRAFT_VERSION", FALSE, max, FALSE, quic>> :
           max \in {"SSL3", "TLS1_1", "TLS1_2"}, quic \in BOOLEAN}
  \cup {<<"TLS1_3_DRAFT_VERSION", FALSE, max, TRUE, FALSE>> :
           max \in {"TLS1_1", "TLS1_2"}}

NoHello == [count |-> 0, extensions |-> <<>>, first |-> <<>>, header_len |-> 0,
            retry |-> NoMsg, retry_ret |-> "none",
            key_share |-> "null", key_share_bytes |-> <<>>]

\* The bytes of the client random the GREASE values are made from, as their
\* high four bits.
GreaseSeed(first, second) ==
  [index \in {"ssl_grease_extension1", "ssl_grease_extension2"} |->
     IF index = "ssl_grease_extension1" THEN first ELSE second]

\* The handshake object of a client about to write its first ClientHello.
HelloClient(cc, sc, hostname_len, grease, custom, channel_id) ==
  [NewHandshake(cc[1], sc[1], FALSE, channel_id) EXCEPT !.key_share = "null"]
  @@ [session_tls13 |-> sc[2],
      tlsext_ticklen |-> sc[3],
      enable_early_data |-> sc[4],
      hostname_len |-> hostname_len,
      grease_enabled |-> grease,
      custom_extension |-> custom,
      is_dtls |-> cc[4],
      min_tls13 |-> cc[2],
      max_version |-> cc[3],
      quic_transport_params |-> cc[5],
      cookie_len |-> 0,
      key_share_bytes |-> <<>>,
      key_shares_created |-> 0,
      extensions_sent |-> {},
      send_connection_binding |-> FALSE,
      grease_seed |-> GreaseSeed(1, 2),
      needs_psk_binder |-> FALSE]

InitCH ==
  /\ \E cc \in ClientConfigs, sc \in SessionConfigs, hostname_len \in HostnameLens,
        grease \in BOOLEAN, custom \in BOOLEAN, channel_id \in BOOLEAN :
       hs = HelloClient(cc, sc, hostname_len, grease, custom, channel_id)
  /\ hello = NoHello
  /\ queue = <<>>
  /\ log = <<>>
  /\ drv = [pc |-> "idle"]
  /\ buf = <<>>
  /\ cbs = CBS_init(0, 0)
  /\ out = NoOut
  /\ last = [op |-> "CBS_init", arg |-> 0, ret |-> 1, pre |-> cbs, val |-> U32Zero]
  /\ scan = [decoded |-> 0]
  /\ ticket = [processed |-> 0]
  /\ cbb = [ops |-> 0]

chOtherVars == <<buf, cbs, out, last, queue, log, drv, scan, ticket, cbb>>

\* The client writes its first ClientHello and, if it offered early data,
\* goes on to write early data (hs->in_early_data).
FirstClientHello ==
  /\ hello.count = 0
  /\ \E header_len \in HeaderLens :
       LET r == ssl_add_clienthello_tlsext(hs, header_len, "SHA256") IN
       /\ hs' = [r.hs EXCEPT !.in_early_data = r.hs.early_data_offered]
       /\ hello' = [count |-> 1, extensions |-> r.exts, first |-> r.exts,
                    header_len |-> header_len, retry |-> NoMsg,
                    retry_ret |-> "none",
                    key_share |-> r.hs.key_share,
                    key_share_bytes |-> r.hs.key_share_bytes]
  /\ UNCHANGED chOtherVars

\* The server's answer is a HelloRetryRequest do_read_hello_retry_request
\* accepts.
RetryRequested ==
  /\ hello.count = 1
  /\ hello.retry = NoMsg
  /\ hs.max_version = "TLS1_3"
  /\ \E type \in {"hello_retry_request", "server_hello"}, n \in CookieLens :
       \E m \in RetryBodies([Msg(type) EXCEPT !.id = 1, !.hrr_random = TRUE]) :
         LET r == do_read_hello_retry_request(hs, <<m>>, "none") IN
         /\ r.ret # "error"
         /\ r.hs.tls13_state = state_send_second_client_hello
         /\ hs' = [r.hs EXCEPT !.cookie_len = IF r.hs.cookie THEN n ELSE 0]
         /\ hello' = [hello EXCEPT !.retry = m, !.retry_ret = r.ret]
  /\ UNCHANGED chOtherVars

\* do_send_second_client_hello has ssl_write_client_hello build the second
\* ClientHello, whose header is as long as that of the first.
SecondClientHello ==
  /\ hello.count = 1
  /\ hs.tls13_state = state_send_second_client_hello
  /\ \E null_prf \in {"SHA256", "SHA384"} :
       LET r == ssl_add_clienthello_tlsext(hs, hello.header_len, null_prf) IN
       /\ hs' = r.hs
       /\ hello' = [hello EXCEPT !.count = 2, !.extensions = r.exts]
  /\ UNCHANGED chOtherVars

NextCH == FirstClientHello \/ RetryRequested \/ SecondClientHello

SpecCH == InitCH /\ [][NextCH]_vars

(***************************************************************************)
(* Claims about the ClientHello extension block.                           *)
(***************************************************************************)
\* The extensions of a given type in a block.
OfType(extensions, type) == SelectSeq(extensions, LAMBDA e : e.type = type)

\* The second ClientHello was written, answering the retry request hello.retry.
SecondHelloWritten == hello.count = 2

\* C12: the second ClientHello after a HelloRetryRequest that selected group
\* G has exactly one key_share extension, whose only entry is for G and holds
\* a key made for this ClientHello (no GREASE entry, not the group offered
\* first), and hs->key_share is that new key; after a HelloRetryRequest with
\* only a cookie the key_share extension repeats the entries of the first
\* ClientHello unchanged and hs->key_share is still the first key.
C12_SecondKeyShare ==
  SecondHelloWritten =>
    LET first == OfType(hello.first, "key_share")
        second == OfType(hello.extensions, "key_share")
        G == hello.retry.key_share
    IN /\ Len(first) = 1
       /\ Len(second) = 1
       /\ G # "none" =>
            /\ Len(second[1].body) = 1
            /\ second[1].body[1].group = G
            /\ G # hello.key_share
            /\ \A i \in DOMAIN first[1].body :
                 second[1].body[1].made > first[1].body[i].made
            /\ second[1].len = 2 + 4 + KeyExchangeLen(G)
            /\ hs.key_share = G
            /\ hs.key_shares_created = second[1].body[1].made
       /\ G = "none" =>
            /\ second[1] = first[1]
            /\ second[1].body = hello.key_share_bytes
            /\ hs.key_share = hello.key_share
            /\ hs.key_shares_created = 1

\* A second ClientHello answering a retry request for P-256, written by a
\* client that put a GREASE entry before its X25519 share in the first.
C12_Witness ==
  /\ SecondHelloWritten
  /\ hello.retry.key_share = "P-256"
  /\ hs.grease_enabled
  /\ Len(OfType(hello.first, "key_share")[1].body) = 2
  /\ OfType(hello.extensions, "key_share")[1].body = <<KeyShareEntry("P-256", 2)>>

\* The positions of the log where a ClientHello was added to the flight.
ClientHelloIdx ==
  {i \in DOMAIN log : log[i].e = "add_message" /\ log[i].a = "client_hello"}

\* The positions of the log where a HelloRetryRequest or ServerHello was
\* hashed, that is, accepted.
HelloAcceptedIdx ==
  {i \in HashIdx : log[i].a \in {"hello_retry_request", "server_hello"}}

\* What do_read_server_hello would have to take for another retry request.
FurtherRetryRequest(msg, version) ==
  IF ssl_is_draft22(version)
    THEN msg.type = "server_hello" /\ msg.hrr_random
    ELSE msg.type = "hello_retry_request"

\* C13: in one handshake the client writes at most one second ClientHello and
\* accepts at most one retry request (and then at most one ServerHello), and a
\* retry request that reaches
\* do_read_server_hello after one was accepted makes the handler return error
\* and leaves the state and the flight as they were.
C13_OneRetryOnly ==
  /\ Cardinality(ClientHelloIdx) <= 1
  /\ ClientHelloIdx # {} => hs.received_hello_retry_request
  /\ Cardinality(HelloAcceptedIdx) <= (IF hs.received_hello_retry_request THEN 2 ELSE 1)
  /\ Cardinality({i \in HelloAcceptedIdx : log[i].a = "hello_retry_request"}) <= 1
  /\ (/\ drv.handler = state_read_server_hello
      /\ drv.msg # NoMsg
      /\ hs.received_hello_retry_request
      /\ FurtherRetryRequest(drv.msg, hs.version))
       => /\ drv.wait = "error"
          /\ drv.cause = "message"
          /\ drv.alert # NoAlert
          /\ hs.tls13_state = state_read_server_hello
          /\ Len(log) = drv.loglen

C13_Witness ==
  /\ drv.handler = state_read_server_hello
  /\ drv.msg # NoMsg
  /\ hs.received_hello_retry_request
  /\ FurtherRetryRequest(drv.msg, hs.version)
  /\ drv.msg.decodes
  /\ drv.msg.key_share = "P-256"
  /\ Cardinality(ClientHelloIdx) = 1
  /\ drv.wait = "error"

\* do_read_server_hello is about to run on a message.
AtServerHello ==
  /\ drv.pc = "running"
  /\ hs.tls13_state = state_read_server_hello
  /\ queue # <<>>

\* The checks of do_read_server_hello on a ServerHello with pre_shared_key:
\* the client has a session, the index is 0, the session is of the negotiated
\* version, of the selected cipher's PRF hash and of a valid context.
ResumptionChecksPass(h, msg) ==
  /\ h.session # "none"
  /\ msg.pre_shared_key = "psk0"
  /\ h.session # "old_version"
  /\ algorithm_prf(SessionCipher) = algorithm_prf(msg.cipher)
  /\ h.session # "other_context"

\* C14: session_reused becomes true only in do_read_server_hello, on a
\* ServerHello with pre_shared_key that passed every resumption check; a
\* ServerHello with pre_shared_key that fails a check makes the handler return
\* error with session_reused still false; a ServerHello without
\* pre_shared_key leaves session_reused false and, when the handler goes on,
\* has a fresh session created.
C14_ResumedOnlyIfChecked ==
  [][/\ (hs'.session_reused /\ ~hs.session_reused) =>
          /\ AtServerHello
          /\ Head(queue).pre_shared_key # "none"
          /\ ResumptionChecksPass(hs, Head(queue))
     /\ (AtServerHello /\ Head(queue).pre_shared_key # "none"
           /\ ~ResumptionChecksPass(hs, Head(queue))) =>
          /\ drv'.wait = "error"
          /\ ~hs'.session_reused
          /\ hs'.new_session = hs.new_session
          /\ hs'.session = hs.session
     /\ (AtServerHello /\ Head(queue).pre_shared_key = "none") =>
          /\ ~hs'.session_reused
          /\ drv'.wait # "error" => hs'.new_session = "new"]_vars

\* A ServerHello selecting PSK 0 was accepted for a resumable session.
C14_Witness ==
  /\ drv.handler = state_read_server_hello
  /\ drv.wait = "ok"
  /\ drv.msg.pre_shared_key = "psk0"
  /\ hs.session_reused
  /\ hs.new_session = "dup"

\* The positions of the log where the client added a message (or alert) of a
\* given kind to its flight.
AddedIdx(kind) ==
  {i \in DOMAIN log : log[i].e \in {"add_message", "add_alert"} /\ log[i].a = kind}

\* C15: the client's second flight holds an end-of-early-data message or alert
\* only if early data was accepted, a Certificate only if the server asked for
\* one, a CertificateVerify only after a Certificate and only if the client
\* has a certificate, and nothing of these after Finished; once the handshake
\* is done the flight holds a Certificate exactly if the server asked for one,
\* and exactly one Finished.
C15_SecondFlight ==
  /\ AddedIdx("end_of_early_data") # {} => hs.early_data_accepted
  /\ AddedIdx("certificate") # {} => hs.cert_request
  /\ AddedIdx("certificate_verify") # {} =>
       /\ hs.has_certificate
       /\ \A v \in AddedIdx("certificate_verify") :
            \E c \in AddedIdx("certificate") : c < v
  /\ \A f \in AddedIdx("finished") :
       \A i \in AddedIdx("end_of_early_data") \cup AddedIdx("certificate")
                  \cup AddedIdx("certificate_verify") : i < f
  /\ \A kind \in {"end_of_early_data", "certificate", "certificate_verify", "finished"} :
       Cardinality(AddedIdx(kind)) <= 1
  /\ hs.tls13_state = state_done =>
       /\ Cardinality(AddedIdx("finished")) = 1
       /\ hs.cert_request <=> AddedIdx("certificate") # {}
       /\ hs.early_data_accepted <=> AddedIdx("end_of_early_data") # {}

\* A handshake that ended with Certificate, CertificateVerify and Finished.
C15_Witness ==
  /\ hs.tls13_state = state_done
  /\ hs.cert_request
  /\ AddedIdx("certificate_verify") # {}
  /\ AddedIdx("finished") # {}

\* Where an extension type belongs in a ClientHello: the empty GREASE
\* extension, the registry in table order, the custom extensions, the one-byte
\* GREASE extension, padding, pre_shared_key.
Rank(type) ==
  CASE type = "grease_ext1" -> 0
    [] type = "custom" -> kNumExtensions + 1
    [] type = "grease_ext2" -> kNumExtensions + 2
    [] type = "padding" -> kNumExtensions + 3
    [] type = "pre_shared_key" -> kNumExtensions + 4
    [] OTHER -> CHOOSE i \in 1..kNumExtensions : kExtensions[i] = type

HelloWritten == hello.count >= 1

\* ssl_add_clienthello_tlsext got past its first test and wrote an extension
\* block: the client is not one of SSL 3.0 outside a secure renegotiation.
BlockProduced == ~(hs.max_version = "SSL3" /\ ~hs.send_connection_binding)

\* C19: the extensions of a ClientHello extension block come in this order,
\* each at most once: the empty GREASE extension, the registry extensions in
\* table order, the custom extensions, the one-byte GREASE extension, padding,
\* pre_shared_key; the GREASE extensions are there exactly if GREASE is
\* enabled, a registry extension exactly if its sent bit is set, and
\* pre_shared_key, when there, is the last extension of the block. Where no
\* block is produced nothing is written.
C19_ExtensionOrder ==
  /\ HelloWritten /\ ~BlockProduced => hello.extensions = <<>>
  /\ HelloWritten /\ BlockProduced =>
    LET exts == hello.extensions IN
    /\ \A i \in DOMAIN exts :
         exts[i].type \in {"grease_ext1", "custom", "grease_ext2", "padding",
                           "pre_shared_key"}
                          \cup {kExtensions[k] : k \in 1..kNumExtensions}
    /\ \A i, j \in DOMAIN exts : i < j => Rank(exts[i].type) < Rank(exts[j].type)
    /\ \A type \in {"grease_ext1", "grease_ext2"} :
         hs.grease_enabled <=> OfType(exts, type) # <<>>
    /\ \A e \in {exts[i] : i \in DOMAIN exts} :
         /\ e.type = "grease_ext1" => e.len = 0
         /\ e.type = "grease_ext2" => e.len = 1
         /\ e.type = "padding" => e.len >= 1 /\ ~hs.is_dtls
    /\ \A k \in 1..kNumExtensions :
         kExtensions[k] \in hs.extensions_sent <=> OfType(exts, kExtensions[k]) # <<>>
    /\ hs.custom_extension <=> OfType(exts, "custom") # <<>>
    /\ OfType(exts, "pre_shared_key") # <<>> =>
         /\ exts[Len(exts)].type = "pre_shared_key"
         /\ hs.needs_psk_binder

\* A ClientHello with both GREASE extensions, a custom extension, padding and
\* pre_shared_key.
C19_Witness ==
  /\ HelloWritten
  /\ OfType(hello.extensions, "grease_ext1") # <<>>
  /\ OfType(hello.extensions, "custom") # <<>>
  /\ OfType(hello.extensions, "grease_ext2") # <<>>
  /\ OfType(hello.extensions, "padding") # <<>>
  /\ OfType(hello.extensions, "pre_shared_key") # <<>>
  /\ Cardinality(hs.extensions_sent) >= 8

\* The length of the ClientHello last written: its header, the two bytes of
\* the block's length and the block.
ClientHelloLen == hello.header_len + 2 + CBB_len(hello.extensions)

\* The second ClientHello compared the session's hash with that of a cipher
\* the HelloRetryRequest selected (and not with one read through a null
\* pointer).
RetryCipherKnown == hs.received_hello_retry_request => hs.new_cipher # "null"

\* C20: no ClientHello of a non-DTLS client, first or second, is 256 to 511
\* bytes long, its length being header_len, the two bytes of the block's
\* length and the extensions actually written, padding and pre_shared_key
\* included.
C20_NeverBetween255And512 ==
  (HelloWritten /\ ~hs.is_dtls /\ RetryCipherKnown) =>
    ~(ClientHelloLen > 255 /\ ClientHelloLen < 512)

(***************************************************************************)
(* Decoding a hello extension block (t1_lib.cc). The bytes of the hello    *)
(* from its extension block on are in buf and are read with the CBS        *)
(* getters above. A parse callback is modelled by the record of its        *)
(* invocation (the descriptor, and the contents or their absence) and by   *)
(* whether it accepts: at most one descriptor's callback, named rejecting, *)
(* refuses what it is given.                                               *)
(***************************************************************************)
MaxExtensions == 3

\* TLSEXT_TYPE_*: the wire value of a registry descriptor.
TLSEXT_TYPE(name) ==
  CASE name = "renegotiate" -> 65281
    [] name = "server_name" -> 0
    [] name = "extended_master_secret" -> 23
    [] name = "session_ticket" -> 35
    [] name = "signature_algorithms" -> 13
    [] name = "status_request" -> 5
    [] name = "next_proto_neg" -> 13172
    [] name = "certificate_timestamp" -> 18
    [] name = "application_layer_protocol_negotiation" -> 16
    [] name = "channel_id" -> 30032
    [] name = "srtp" -> 14
    [] name = "ec_point_formats" -> 11
    [] name = "key_share" -> 40
    [] name = "psk_key_exchange_modes" -> 45
    [] name = "early_data" -> 42
    [] name = "supported_versions" -> 43
    [] name = "cookie" -> 44
    [] name = "dummy_pq_padding" -> 54537
    [] name = "quic_transport_parameters" -> 26
    [] name = "supported_groups" -> 10
    [] name = "token_binding" -> 24
    [] name = "padding" -> 21
    [] name = "pre_shared_key" -> 41

\* tls_extension_find: the index of the descriptor with this value, 0 for NULL.
tls_extension_find(value) ==
  IF \E i \in 1..kNumExtensions : TLSEXT_TYPE(kExtensions[i]) = value
    THEN CHOOSE i \in 1..kNumExtensions : TLSEXT_TYPE(kExtensions[i]) = value
    ELSE 0

\* The bytes a CBS shows.
CbsBytes(c) == [k \in 1..c.len |-> buf[c.data + k]]

\* The first pass of tls1_check_duplicate_extensions: the number of
\* extensions counted so far, negative once an extension does not decode.
RECURSIVE CountExtensions(_, _)
CountExtensions(extensions, num_extensions) ==
  IF CBS_len(extensions) = 0 THEN num_extensions
  ELSE LET type == CBS_get_u16(extensions) IN
       IF type.ret = 0 THEN 0 - 1
       ELSE LET extension == CBS_get_u16_length_prefixed(type.cbs, NoOut) IN
            IF extension.ret = 0 THEN 0 - 1
            ELSE CountExtensions(extension.cbs, num_extensions + 1)

\* The second pass: the types of the next n extensions, in wire order.
RECURSIVE GatherTypes(_, _)
GatherTypes(extensions, n) ==
  IF n = 0 THEN <<>>
  ELSE LET type == CBS_get_u16(extensions)
           extension == CBS_get_u16_length_prefixed(type.cbs, NoOut)
       IN <<U32Val(type.val)>> \o GatherTypes(extension.cbs, n - 1)

\* compare_uint16_t
compare_uint16_t(u1, u2) == IF u1 < u2 THEN 0 - 1 ELSE IF u1 > u2 THEN 1 ELSE 0

\* qsort(.., compare_uint16_t): the values in an order the comparison agrees
\* with.
RECURSIVE qsort(_)
qsort(values) ==
  IF values = <<>> THEN <<>>
  ELSE LET pivot == Head(values)
           rest == Tail(values)
           before == SelectSeq(rest, LAMBDA v : compare_uint16_t(v, pivot) < 0)
           after == SelectSeq(rest, LAMBDA v : compare_uint16_t(v, pivot) >= 0)
       IN qsort(before) \o <<pivot>> \o qsort(after)

\* tls1_check_duplicate_extensions comparing neighbours without sorting.
tls1_check_duplicate_extensions_unsorted(extensions, alloc_ok) ==
  LET num_extensions == CountExtensions(extensions, 0)
      extension_types == GatherTypes(extensions, num_extensions)
  IN
  IF num_extensions < 0 THEN 0
  ELSE IF num_extensions = 0 THEN 1
  ELSE IF ~alloc_ok THEN 0
  ELSE IF \E i \in 2..num_extensions : extension_types[i - 1] = extension_types[i]
    THEN 0
  ELSE 1

\* tls1_check_duplicate_extensions(cbs); alloc_ok is whether
\* extension_types.Init got its memory.
tls1_check_duplicate_extensions(extensions, alloc_ok) ==
  LET num_extensions == CountExtensions(extensions, 0)
      extension_types == qsort(GatherTypes(extensions, num_extensions))
  IN
  IF num_extensions < 0 THEN 0
  ELSE IF num_extensions = 0 THEN 1
  ELSE IF ~alloc_ok THEN 0
  ELSE IF \E i \in 2..num_extensions : extension_types[i - 1] = extension_types[i]
    THEN 0
  ELSE 1

\* One invocation of a parse callback: the descriptor ("custom" for the
\* custom extension parser), and the contents it was given, if any.
ParseCall(type, present, contents) ==
  [type |-> type, present |-> present, contents |-> contents]

\* What a decode did: its return value, *out_alert, the callbacks it invoked
\* in order, the received bits and hs->received_custom_extension; alerts
\* holds, for each callback invoked, what it left in the alert variable it
\* was handed.
Scanned(ret, alert, calls, received, custom) ==
  [ret |-> ret, alert |-> alert, calls |-> calls, received |-> received,
   received_custom_extension |-> custom, alerts |-> <<>>]

\* The alert a parse callback writes, if it writes one.
CallbackAlert == "illegal_parameter"

\* The alert each callback writes: the server_name callbacks have one of
\* their own.
AlertWrittenBy(type) ==
  IF type = "server_name" THEN "unrecognized_name" ELSE CallbackAlert

\* The alert variable of a callback that refused, taken to hold what a
\* callback invoked earlier in the same decode left behind.
parse_alert_stale(h, type, s) ==
  IF type \in h.alert_writers THEN AlertWrittenBy(type)
  ELSE IF s.alerts = <<>> THEN "decode_error"
  ELSE s.alerts[Len(s.alerts)]

\* uint8_t alert = SSL_AD_DECODE_ERROR, handed to a parse callback: what it
\* holds when the callback returns. The callbacks of h.alert_writers write
\* their alert, whether they accept or refuse; s is the decode so far.
parse_alert(h, type, s) ==
  IF type \in h.alert_writers THEN AlertWrittenBy(type) ELSE "decode_error"

\* Every extension of a ServerHello taken as one the client asked for.
SentOrRenegotiate_always(h, ext_index, type) == TRUE

\* The test of ssl_scan_serverhello_tlsext that lets a registry extension of
\* the ServerHello through to its callback: its bit is in
\* hs->extensions.sent, or it is renegotiation_info.
SentOrRenegotiate(h, ext_index, type) ==
  \/ kExtensions[ext_index] \in h.extensions_sent
  \/ type = TLSEXT_TYPE("renegotiate")

\* The while loop of ssl_scan_serverhello_tlsext; s is the decode so far.
RECURSIVE ServerHelloWirePass(_, _, _, _)
ServerHelloWirePass(h, extensions, rejecting, s) ==
  IF CBS_len(extensions) = 0 THEN s
  ELSE
    LET type == CBS_get_u16(extensions) IN
    IF type.ret = 0 THEN [s EXCEPT !.ret = 0, !.alert = "decode_error"]
    ELSE
      LET extension == CBS_get_u16_length_prefixed(type.cbs, NoOut)
          ext_index == tls_extension_find(U32Val(type.val))
      IN
      IF extension.ret = 0 THEN [s EXCEPT !.ret = 0, !.alert = "decode_error"]
      ELSE IF ext_index = 0
        THEN LET called == [s EXCEPT !.received_custom_extension = TRUE,
                                     !.calls = Append(@, ParseCall("custom", TRUE,
                                                        CbsBytes(extension.out))),
                                     !.alerts = Append(@, IF rejecting = "custom"
                                                  THEN "unsupported_extension"
                                                  ELSE s.alert)]
             IN IF rejecting = "custom"
                  THEN [called EXCEPT !.ret = 0, !.alert = "unsupported_extension"]
                  ELSE ServerHelloWirePass(h, extension.cbs, rejecting, called)
      ELSE IF ~SentOrRenegotiate(h, ext_index, U32Val(type.val))
        THEN [s EXCEPT !.ret = 0, !.alert = "unsupported_extension"]
      ELSE
        LET alert == parse_alert(h, kExtensions[ext_index], s)
            called == [s EXCEPT !.received = @ \cup {kExtensions[ext_index]},
                                !.calls = Append(@, ParseCall(kExtensions[ext_index], TRUE,
                                                   CbsBytes(extension.out))),
                                !.alerts = Append(@, alert)]
        IN IF rejecting = kExtensions[ext_index]
             THEN [called EXCEPT !.ret = 0, !.alert = alert]
             ELSE ServerHelloWirePass(h, extension.cbs, rejecting, called)

\* The for loop of ssl_scan_serverhello_tlsext from descriptor i on.
RECURSIVE ServerHelloAbsentPass(_, _, _, _)
ServerHelloAbsentPass(h, i, rejecting, s) ==
  IF i > kNumExtensions THEN s
  ELSE IF kExtensions[i] \in s.received THEN ServerHelloAbsentPass(h, i + 1, rejecting, s)
  ELSE LET alert == parse_alert(h, kExtensions[i], s)
           called == [s EXCEPT !.calls = Append(@, ParseCall(kExtensions[i], FALSE, <<>>)),
                               !.alerts = Append(@, alert)]
       IN IF rejecting = kExtensions[i]
            THEN [called EXCEPT !.ret = 0, !.alert = alert]
            ELSE ServerHelloAbsentPass(h, i + 1, rejecting, called)

\* ssl_scan_serverhello_tlsext(hs, cbs, out_alert)
ssl_scan_serverhello_tlsext(h, c, rejecting, alloc_ok) ==
  LET none == Scanned(1, NoAlert, <<>>, {}, FALSE)
      extensions == CBS_get_u16_length_prefixed(c, NoOut)
  IN
  IF CBS_len(c) = 0 /\ h.version # "TLS1_3" THEN none
  ELSE IF extensions.ret = 0 THEN [none EXCEPT !.ret = 0, !.alert = "decode_error"]
  ELSE IF tls1_check_duplicate_extensions(extensions.out, alloc_ok) = 0
    THEN [none EXCEPT !.ret = 0, !.alert = "decode_error"]
  ELSE LET wire == ServerHelloWirePass(h, extensions.out, rejecting, none)
       IN IF wire.ret = 0 THEN wire ELSE ServerHelloAbsentPass(h, 1, rejecting, wire)

\* The tail of ssl_client_hello_init: what follows the compression methods.
\* extensions is the block the ClientHello records.
ssl_client_hello_init(c, alloc_ok) ==
  LET extensions == CBS_get_u16_length_prefixed(c, NoOut) IN
  IF CBS_len(c) = 0 THEN [ret |-> 1, extensions |-> CBS_init(0, 0)]
  ELSE IF \/ extensions.ret = 0
          \/ tls1_check_duplicate_extensions(extensions.out, alloc_ok) = 0
          \/ CBS_len(extensions.cbs) # 0
    THEN [ret |-> 0, extensions |-> CBS_init(0, 0)]
  ELSE [ret |-> 1, extensions |-> extensions.out]

\* The while loop of ssl_scan_clienthello_tlsext; s is the decode so far.
RECURSIVE ClientHelloWirePass(_, _, _, _)
ClientHelloWirePass(h, extensions, rejecting, s) ==
  IF CBS_len(extensions) = 0 THEN s
  ELSE
    LET type == CBS_get_u16(extensions) IN
    IF type.ret = 0 THEN [s EXCEPT !.ret = 0, !.alert = "decode_error"]
    ELSE
      LET extension == CBS_get_u16_length_prefixed(type.cbs, NoOut)
          ext_index == tls_extension_find(U32Val(type.val))
      IN
      IF extension.ret = 0 THEN [s EXCEPT !.ret = 0, !.alert = "decode_error"]
      ELSE IF h.version = "SSL3" /\ U32Val(type.val) # TLSEXT_TYPE("renegotiate")
        THEN ClientHelloWirePass(h, extension.cbs, rejecting, s)
      ELSE IF ext_index = 0
        THEN LET alert == parse_alert(h, "custom", s)
                 called == [s EXCEPT !.calls = Append(@, ParseCall("custom", TRUE,
                                                        CbsBytes(extension.out))),
                                     !.alerts = Append(@, alert)]
             IN IF rejecting = "custom"
                  THEN [called EXCEPT !.ret = 0, !.alert = alert]
                  ELSE ClientHelloWirePass(h, extension.cbs, rejecting, called)
      ELSE
        LET alert == parse_alert(h, kExtensions[ext_index], s)
            called == [s EXCEPT !.received = @ \cup {kExtensions[ext_index]},
                                !.calls = Append(@, ParseCall(kExtensions[ext_index], TRUE,
                                                   CbsBytes(extension.out))),
                                !.alerts = Append(@, alert)]
        IN IF rejecting = kExtensions[ext_index]
             THEN [called EXCEPT !.ret = 0, !.alert = alert]
             ELSE ClientHelloWirePass(h, extension.cbs, rejecting, called)

\* kFakeRenegotiateExtension
kFakeRenegotiateExtension == <<0>>

\* The first test of ext_ri_parse_serverhello: a renegotiation_info extension
\* in a TLS 1.3 ServerHello is refused with illegal_parameter.
ext_ri_parse_serverhello_tls13(version, present) == present /\ version = "TLS1_3"

\* A decode that leaves out the pass over the extensions not received.
ClientHelloAbsentPass_none(h, i, rejecting, s) == s

\* The for loop of ssl_scan_clienthello_tlsext from descriptor i on.
RECURSIVE ClientHelloAbsentPass(_, _, _, _)
ClientHelloAbsentPass(h, i, rejecting, s) ==
  IF i > kNumExtensions THEN s
  ELSE IF kExtensions[i] \in s.received THEN ClientHelloAbsentPass(h, i + 1, rejecting, s)
  ELSE LET fake == kExtensions[i] = "renegotiate" /\ h.scsv
           alert == parse_alert(h, kExtensions[i], s)
           called == [s EXCEPT
                        !.received = IF fake THEN @ \cup {kExtensions[i]} ELSE @,
                        !.calls = Append(@, IF fake
                                     THEN ParseCall(kExtensions[i], TRUE, kFakeRenegotiateExtension)
                                     ELSE ParseCall(kExtensions[i], FALSE, <<>>)),
                        !.alerts = Append(@, alert)]
       IN IF rejecting = kExtensions[i]
            THEN [called EXCEPT !.ret = 0, !.alert = alert]
            ELSE ClientHelloAbsentPass(h, i + 1, rejecting, called)

\* ssl_scan_clienthello_tlsext(hs, client_hello, out_alert)
ssl_scan_clienthello_tlsext(h, extensions, rejecting) ==
  LET wire == ClientHelloWirePass(h, extensions, rejecting, Scanned(1, NoAlert, <<>>, {}, FALSE))
  IN IF wire.ret = 0 THEN wire ELSE ClientHelloAbsentPass(h, 1, rejecting, wire)

(***************************************************************************)
(* The decoder's inputs: blocks of up to MaxExtensions extensions, whole,  *)
(* cut short or with a stray byte, inside a hello that frames them         *)
(* rightly, overstates their length, carries a byte after them or omits    *)
(* the block.                                                              *)
(***************************************************************************)
U16Bytes(v) == <<v \div 256, v % 256>>

WireExtension(type, body) == U16Bytes(type) \o U16Bytes(Len(body)) \o body

\* server_name (empty and one-byte), an unregistered type, renegotiation_info
WireExtensions ==
  { WireExtension(TLSEXT_TYPE("server_name"), <<>>),
    WireExtension(TLSEXT_TYPE("server_name"), <<0>>),
    WireExtension(1, <<>>),
    WireExtension(TLSEXT_TYPE("renegotiate"), <<>>) }

RECURSIVE Concat(_)
Concat(parts) == IF parts = <<>> THEN <<>> ELSE Head(parts) \o Concat(Tail(parts))

ExtensionBlocks ==
  LET whole == { Concat(parts) : parts \in UNION { [1..n -> WireExtensions] : n \in 0..MaxExtensions } }
  IN whole
     \cup { SubSeq(b, 1, Len(b) - 1) : b \in whole \ {<<>>} }
     \cup { b \o <<0>> : b \in whole }

Framings == {"exact", "overstated", "trailing"}

Framed(block, framing) ==
  CASE framing = "exact" -> U16Bytes(Len(block)) \o block
    [] framing = "overstated" -> U16Bytes(Len(block) + 1) \o block
    [] framing = "trailing" -> U16Bytes(Len(block)) \o block \o <<0>>

HelloTails ==
  {<<>>} \cup { Framed(block, framing) : block \in ExtensionBlocks, framing \in Framings }

\* The callbacks that write an alert: none, those of server_name only, all.
AlertWriters == {{}, {"server_name"}, {"custom"} \cup {kExtensions[i] : i \in 1..kNumExtensions}}

ScanConfigs ==
  { [server |-> FALSE, version |-> v, extensions_sent |-> sent, scsv |-> FALSE,
     alert_writers |-> w] :
      v \in {"TLS1_2", "TLS1_3"}, sent \in SUBSET {"server_name", "renegotiate"},
      w \in AlertWriters }
  \cup
  { [server |-> TRUE, version |-> v, extensions_sent |-> {}, scsv |-> scsv,
     alert_writers |-> w] :
      v \in {"SSL3", "TLS1_2"}, scsv \in BOOLEAN, w \in AlertWriters }

Rejecting == {"none", "custom", "server_name", "renegotiate", "key_share"}

InitScan ==
  /\ buf \in HelloTails
  /\ cbs = CBS_init(0, Len(buf))
  /\ out = NoOut
  /\ last = [op |-> "CBS_init", arg |-> Len(buf), ret |-> 1, pre |-> cbs, val |-> U32Zero]
  /\ hs \in ScanConfigs
  /\ queue = <<>>
  /\ log = <<>>
  /\ drv = [pc |-> "idle"]
  /\ hello = [count |-> 0]
  /\ scan = [decoded |-> 0]
  /\ ticket = [processed |-> 0]
  /\ cbb = [ops |-> 0]

scanOtherVars == <<buf, cbs, out, last, hs, queue, log, drv, hello, ticket, cbb>>

Decoded(op, s, checked, rejecting, alloc_ok) ==
  [decoded |-> 1, op |-> op, checked |-> checked, rejecting |-> rejecting,
   alloc_ok |-> alloc_ok] @@ s

\* tls1_check_duplicate_extensions on the block of a hello that frames one.
CheckDuplicates ==
  /\ scan.decoded = 0
  /\ \E alloc_ok \in BOOLEAN :
       LET extensions == CBS_get_u16_length_prefixed(cbs, NoOut) IN
       /\ extensions.ret = 1
       /\ scan' = Decoded("tls1_check_duplicate_extensions",
                          Scanned(tls1_check_duplicate_extensions(extensions.out, alloc_ok),
                                  NoAlert, <<>>, {}, FALSE),
                          TRUE, "none", alloc_ok)
  /\ UNCHANGED scanOtherVars

\* The client decodes the extensions of a ServerHello or EncryptedExtensions.
ScanServerHello ==
  /\ scan.decoded = 0
  /\ ~hs.server
  /\ \E rejecting \in Rejecting, alloc_ok \in BOOLEAN :
       scan' = Decoded("ssl_scan_serverhello_tlsext",
                       ssl_scan_serverhello_tlsext(hs, cbs, rejecting, alloc_ok),
                       ~(CBS_len(cbs) = 0 /\ hs.version # "TLS1_3"),
                       rejecting, alloc_ok)
  /\ UNCHANGED scanOtherVars

\* The server decodes a ClientHello: ssl_client_hello_init, then
\* ssl_scan_clienthello_tlsext on the block it recorded.
ParseClientHello ==
  /\ scan.decoded = 0
  /\ hs.server
  /\ \E rejecting \in Rejecting, alloc_ok \in BOOLEAN :
       LET client_hello == ssl_client_hello_init(cbs, alloc_ok) IN
       scan' = Decoded("ssl_scan_clienthello_tlsext",
                       IF client_hello.ret = 0
                         THEN Scanned(0, "decode_error", <<>>, {}, FALSE)
                         ELSE ssl_scan_clienthello_tlsext(hs, client_hello.extensions, rejecting),
                       CBS_len(cbs) # 0,
                       rejecting, alloc_ok)
  /\ UNCHANGED scanOtherVars

\* The loop of ssl_add_serverhello_tlsext invoking the add_serverhello
\* callback of every descriptor.
RECURSIVE AddServerHelloCalls_all(_, _)
AddServerHelloCalls_all(received, i) ==
  IF i > kNumExtensions THEN <<>>
  ELSE <<kExtensions[i]>> \o AddServerHelloCalls_all(received, i + 1)

\* The loop of ssl_add_serverhello_tlsext from descriptor i on: the
\* descriptors whose add_serverhello callback it invokes, in order.
RECURSIVE AddServerHelloCalls(_, _)
AddServerHelloCalls(received, i) ==
  IF i > kNumExtensions THEN <<>>
  ELSE IF kExtensions[i] \notin received
    \* Don't send extensions that were not received.
    THEN AddServerHelloCalls(received, i + 1)
  ELSE <<kExtensions[i]>> \o AddServerHelloCalls(received, i + 1)

\* The server, having accepted the ClientHello's extensions, writes those of
\* its ServerHello: ssl_add_serverhello_tlsext invokes the callbacks, of
\* which the one named declining writes nothing.
AddServerHello ==
  /\ scan.decoded = 1
  /\ scan.op = "ssl_scan_clienthello_tlsext"
  /\ scan.ret = 1
  /\ \E declining \in {"none", "server_name", "renegotiate"} :
       LET invoked == AddServerHelloCalls(scan.received, 1) IN
       scan' = [add_calls |-> invoked,
                added |-> SelectSeq(invoked, LAMBDA type : type # declining)]
               @@ [scan EXCEPT !.decoded = 2]
  /\ UNCHANGED scanOtherVars

NextScan == CheckDuplicates \/ ScanServerHello \/ ParseClientHello \/ AddServerHello

SpecScan == InitScan /\ [][NextScan]_vars

\* The hello in buf frames an extension block, and the block it frames.
FramesBlock == Len(buf) >= 2 /\ buf[1] * 256 + buf[2] <= Len(buf) - 2

HelloBlock == SubSeq(buf, 3, 2 + buf[1] * 256 + buf[2])

\* bytes is a sequence of (u16 type, u16-length-prefixed body) entries that
\* exactly exhausts it.
RECURSIVE WellFormedBlock(_)
WellFormedBlock(bytes) ==
  \/ bytes = <<>>
  \/ /\ Len(bytes) >= 4
     /\ 4 + bytes[3] * 256 + bytes[4] <= Len(bytes)
     /\ WellFormedBlock(SubSeq(bytes, 5 + bytes[3] * 256 + bytes[4], Len(bytes)))

\* The (type, body) entries of a well-formed block, in wire order.
RECURSIVE BlockEntries(_)
BlockEntries(bytes) ==
  IF bytes = <<>> THEN <<>>
  ELSE LET n == bytes[3] * 256 + bytes[4] IN
       <<[type |-> bytes[1] * 256 + bytes[2], body |-> SubSeq(bytes, 5, 4 + n)]>>
         \o BlockEntries(SubSeq(bytes, 5 + n, Len(bytes)))

DistinctTypes(entries) ==
  \A i, j \in DOMAIN entries : i # j => entries[i].type # entries[j].type

DuplicateFree(bytes) == WellFormedBlock(bytes) /\ DistinctTypes(BlockEntries(bytes))

\* C17: tls1_check_duplicate_extensions, given the memory for its list of
\* types, accepts a block if and only if the block is a well-formed sequence
\* of (u16 type, u16-length-prefixed body) entries that exactly exhausts it
\* and whose types are pairwise distinct, wherever the repeated type stands
\* and whatever the bodies hold; the empty block is accepted. A decode of a
\* ClientHello or of a ServerHello that invoked any extension callback had a
\* block that passes this check, or no block at all.
C17_DuplicateCheck ==
  /\ (scan.decoded = 1 /\ scan.op = "tls1_check_duplicate_extensions" /\ scan.alloc_ok)
       => ((scan.ret = 1) <=> DuplicateFree(HelloBlock))
  /\ (scan.decoded = 1 /\ scan.op = "tls1_check_duplicate_extensions" /\ HelloBlock = <<>>)
       => scan.ret = 1
  /\ (scan.decoded = 1 /\ scan.op # "tls1_check_duplicate_extensions" /\ scan.calls # <<>>)
       => \/ Len(buf) = 0
          \/ FramesBlock /\ DuplicateFree(HelloBlock)

\* A block of three extensions whose first and last have the same type and
\* whose middle one another type is rejected.
C17_Witness ==
  /\ scan.decoded = 1
  /\ scan.op = "tls1_check_duplicate_extensions"
  /\ scan.alloc_ok
  /\ scan.ret = 0
  /\ WellFormedBlock(HelloBlock)
  /\ LET entries == BlockEntries(HelloBlock) IN
     /\ Len(entries) = 3
     /\ entries[1].type = entries[3].type
     /\ entries[1].type # entries[2].type

\* The descriptor that parses a wire type: a registry name, or "custom".
ParserOf(type) ==
  IF tls_extension_find(type) = 0 THEN "custom" ELSE kExtensions[tls_extension_find(type)]

\* A registry extension other than renegotiation_info that the most recent
\* ClientHello did not send.
NotSent(entry) ==
  /\ tls_extension_find(entry.type) # 0
  /\ ParserOf(entry.type) \notin hs.extensions_sent
  /\ ParserOf(entry.type) # "renegotiate"

\* The client decoded a block that passed the duplicate check.
ServerHelloBlockScanned ==
  /\ scan.decoded = 1
  /\ scan.op = "ssl_scan_serverhello_tlsext"
  /\ FramesBlock
  /\ DuplicateFree(HelloBlock)
  /\ scan.alloc_ok \/ HelloBlock = <<>>

\* The wire pass got to entry k: no earlier entry was refused by its parser
\* or was not sent.
ScanReaches(entries, k) ==
  \A j \in 1..(k - 1) :
    /\ ParserOf(entries[j].type) # scan.rejecting
    /\ ~NotSent(entries[j])

\* C16: when the client's decode of a ServerHello/EncryptedExtensions block
\* comes to an extension whose type is in the registry and whose bit is not
\* in extensions.sent, the decode fails with alert unsupported_extension and
\* the extension's parse callback has not been invoked, for every registry
\* type except renegotiation_info, which goes to its parse callback with its
\* contents even when it was not sent. No decode, however it ends, invokes
\* the callback of such an extension, and none succeeds on a block that
\* holds one.
C16_UnsentExtension ==
  /\ ServerHelloBlockScanned =>
       LET entries == BlockEntries(HelloBlock) IN
       \A k \in DOMAIN entries :
         /\ NotSent(entries[k]) =>
              /\ scan.ret = 0
              /\ \A c \in DOMAIN scan.calls : scan.calls[c].type # ParserOf(entries[k].type)
              /\ ScanReaches(entries, k) =>
                   /\ scan.alert = "unsupported_extension"
                   /\ Len(scan.calls) = k - 1
         /\ ( /\ entries[k].type = TLSEXT_TYPE("renegotiate")
              /\ "renegotiate" \notin hs.extensions_sent
              /\ ScanReaches(entries, k) ) =>
              /\ Len(scan.calls) >= k
              /\ scan.calls[k] = ParseCall("renegotiate", TRUE, entries[k].body)
  /\ (scan.decoded = 1 /\ scan.op = "ssl_scan_serverhello_tlsext") =>
       \A c \in DOMAIN scan.calls :
         (scan.calls[c].present /\ scan.calls[c].type \notin {"custom", "renegotiate"})
           => scan.calls[c].type \in hs.extensions_sent

\* A ServerHello with a renegotiation_info that was not sent, let through to
\* its callback, and then a server_name that was not sent, refused.
C16_Witness ==
  /\ ServerHelloBlockScanned
  /\ hs.extensions_sent = {}
  /\ LET entries == BlockEntries(HelloBlock) IN
     /\ Len(entries) = 2
     /\ entries[1].type = TLSEXT_TYPE("renegotiate")
     /\ entries[2].type = TLSEXT_TYPE("server_name")
  /\ scan.ret = 0
  /\ scan.alert = "unsupported_extension"
  /\ scan.calls = <<ParseCall("renegotiate", TRUE, <<>>)>>

\* A hello's extensions were decoded with success.
HelloDecoded ==
  /\ scan.decoded = 1
  /\ scan.op \in {"ssl_scan_serverhello_tlsext", "ssl_scan_clienthello_tlsext"}
  /\ scan.ret = 1

\* The entries of the hello's block; none when the block is omitted.
HelloEntries == IF Len(buf) = 0 THEN <<>> ELSE BlockEntries(HelloBlock)

\* The client's decode of a hello without a block before TLS 1.3.
OmittedServerBlock == ~hs.server /\ Len(buf) = 0 /\ hs.version # "TLS1_3"

\* The extension is looked at by the wire pass: in an SSL 3.0 ClientHello
\* only renegotiation_info is.
Dispatched(entry) ==
  ~(hs.server /\ hs.version = "SSL3" /\ entry.type # TLSEXT_TYPE("renegotiate"))

\* The invocations of the wire pass: one for each dispatched entry.
WireCalls(entries) ==
  LET seen == SelectSeq(entries, Dispatched)
  IN [k \in DOMAIN seen |-> ParseCall(ParserOf(seen[k].type), TRUE, seen[k].body)]

\* The invocations of the pass after it, for the descriptors from i on whose
\* type the wire pass did not receive.
RECURSIVE AbsentCalls(_, _)
AbsentCalls(i, got) ==
  IF i > kNumExtensions THEN <<>>
  ELSE IF kExtensions[i] \in got THEN AbsentCalls(i + 1, got)
  ELSE IF kExtensions[i] = "renegotiate" /\ hs.server /\ hs.scsv
    THEN <<ParseCall("renegotiate", TRUE, <<0>>)>> \o AbsentCalls(i + 1, got)
  ELSE <<ParseCall(kExtensions[i], FALSE, <<>>)>> \o AbsentCalls(i + 1, got)

\* The registry types the wire pass received.
WireReceived(entries) ==
  { ParserOf(entries[k].type) : k \in { j \in DOMAIN entries : Dispatched(entries[j]) } }
    \ {"custom"}

\* C18: in every successful decode of a hello's extension block each
\* registry descriptor's parse callback is invoked exactly once: in wire
\* order with the extension's contents if its type was on the wire and the
\* wire pass looked at it, and otherwise once after the wire pass, in
\* registry order, with absent contents. The wire pass of an SSL 3.0
\* ClientHello looks at renegotiation_info only. renegotiation_info missing
\* from a ClientHello that lists the SCSV gets a synthetic one-byte contents
\* and its received bit is set. A ServerHello before TLS 1.3 without a block
\* invokes no callback.
C18_EachCallbackOnce ==
  HelloDecoded =>
    IF OmittedServerBlock THEN scan.calls = <<>> /\ scan.received = {}
    ELSE
      /\ Len(buf) # 0 => FramesBlock /\ DuplicateFree(HelloBlock)
      /\ scan.calls = WireCalls(HelloEntries) \o AbsentCalls(1, WireReceived(HelloEntries))
      /\ \A i \in 1..kNumExtensions :
           Cardinality({ c \in DOMAIN scan.calls : scan.calls[c].type = kExtensions[i] }) = 1
      /\ scan.received =
           WireReceived(HelloEntries)
             \cup (IF hs.server /\ hs.scsv THEN {"renegotiate"} ELSE {})

\* The claim as stated: in a successful decode of a hello that has a block,
\* every registry type on the wire had its callback invoked with the
\* extension's contents.
C18_WireContentsAlways ==
  (HelloDecoded /\ FramesBlock) =>
    \A k \in DOMAIN HelloEntries :
      tls_extension_find(HelloEntries[k].type) # 0 =>
        \E c \in DOMAIN scan.calls :
          scan.calls[c] = ParseCall(ParserOf(HelloEntries[k].type), TRUE, HelloEntries[k].body)

\* An SSL 3.0 ClientHello with server_name and renegotiation_info on the
\* wire, decoded with success: renegotiation_info got its contents in the
\* wire pass, server_name was called afterwards without contents.
C18_Witness ==
  /\ HelloDecoded
  /\ hs.server
  /\ hs.version = "SSL3"
  /\ Len(HelloEntries) = 2
  /\ HelloEntries[1].type = TLSEXT_TYPE("server_name")
  /\ HelloEntries[2].type = TLSEXT_TYPE("renegotiate")
  /\ scan.calls[1] = ParseCall("renegotiate", TRUE, <<>>)
  /\ scan.calls[2] = ParseCall("server_name", FALSE, <<>>)
  /\ Len(scan.calls) = kNumExtensions

\* The types of the extensions of the ClientHello last written.
WrittenTypes == { hello.extensions[i].type : i \in DOMAIN hello.extensions }

\* The extensions a ClientHello must not carry for the versions the client
\* offers.
Inapplicable ==
  (IF VersionNum(hs.max_version) < VersionNum("TLS1_2")
     THEN {"signature_algorithms"} ELSE {})
  \cup (IF VersionNum(hs.max_version) < VersionNum("TLS1_3")
          THEN {"key_share", "psk_key_exchange_modes", "supported_versions",
                "pre_shared_key", "quic_transport_parameters"}
          ELSE {})
  \cup (IF hs.min_tls13
          THEN {"renegotiate", "extended_master_secret", "session_ticket",
                "ec_point_formats"}
          ELSE {})

\* A ServerHello that carries the registry extension t is refused: by the
\* test of the sent bits, or, for renegotiation_info, which that test lets
\* through, by its parse callback.
EchoRefused(t) ==
  IF t = "renegotiate"
    THEN ext_ri_parse_serverhello_tls13(IF hs.min_tls13 THEN "TLS1_3" ELSE hs.max_version, TRUE)
    ELSE ~SentOrRenegotiate(hs, tls_extension_find(TLSEXT_TYPE(t)), TLSEXT_TYPE(t))

\* C21: a ClientHello never carries an extension that does not apply to the
\* versions offered: no signature_algorithms with max_version below TLS 1.2;
\* no key_share, psk_key_exchange_modes, supported_versions, pre_shared_key
\* or quic_transport_parameters with max_version below TLS 1.3; no
\* renegotiation_info, extended_master_secret, session_ticket or
\* ec_point_formats with min_version at TLS 1.3. The bits of these
\* extensions in extensions.sent stay clear, and a ServerHello that carries
\* one of them is refused.
C21_NoInapplicableExtension ==
  hello.count >= 1 =>
    /\ WrittenTypes \cap Inapplicable = {}
    /\ hs.extensions_sent \cap Inapplicable = {}
    /\ \A t \in Inapplicable \ {"pre_shared_key"} : EchoRefused(t)

\* A client that offers TLS 1.1 at most, has a TLS 1.3 session and QUIC
\* transport parameters and a hostname, wrote its ClientHello with the
\* hostname in it.
C21_Witness ==
  /\ hello.count = 1
  /\ hs.max_version = "TLS1_1"
  /\ SessionIsTls13(hs)
  /\ hs.quic_transport_params
  /\ "server_name" \in WrittenTypes
  /\ "server_name" \in hs.extensions_sent

(***************************************************************************)
(* Specification SpecNST: the client processes a NewSessionTicket message  *)
(* (tls13_process_new_session_ticket, tls13_client.cc). The message body   *)
(* is in buf; hs holds the SSL fields the function reads.                  *)
(***************************************************************************)
\* CBS_stow(cbs, &out_ptr, &out_len): the length it stores; dup_ok is whether
\* BUF_memdup got its memory.
CBS_stow(c, dup_ok) ==
  IF c.len = 0 THEN [ret |-> 1, len |-> 0]
  ELSE IF ~dup_ok THEN [ret |-> 0, len |-> 0]
  ELSE [ret |-> 1, len |-> c.len]

\* ssl_session_rebase_time(ssl, session): the session's time becomes the
\* current time and its timeout is what is left of it; elapsed is the time
\* since the session's time, negative when the clock went back.
ssl_session_rebase_time(session, elapsed) ==
  IF elapsed < 0 \/ session.timeout < elapsed
    THEN [session EXCEPT !.timeout = 0]
    ELSE [session EXCEPT !.timeout = @ - elapsed]

\* The contents of the first extension of type ext_id among the next n
\* extensions of a block, as ssl_parse_extensions hands them out.
RECURSIVE FindExtension(_, _, _)
FindExtension(extensions, n, ext_id) ==
  IF n = 0 THEN NoOut
  ELSE LET type == CBS_get_u16(extensions)
           extension == CBS_get_u16_length_prefixed(type.cbs, NoOut)
       IN IF U32Val(type.val) = ext_id THEN extension.out
          ELSE FindExtension(extension.cbs, n - 1, ext_id)

\* ssl_parse_extensions(&extensions, &alert, {ext_id}, 1, ignore unknown) on
\* the bytes of a block.
ssl_parse_extensions_bytes(extensions, ext_id) ==
  LET n == CountExtensions(extensions, 0)
      types == GatherTypes(extensions, n)
      hits == IF n < 0 THEN 0 ELSE Cardinality({ i \in 1..n : types[i] = ext_id })
  IN
  IF n < 0 THEN [ret |-> 0, alert |-> "decode_error", present |-> FALSE, data |-> NoOut]
  ELSE IF hits > 1
    THEN [ret |-> 0, alert |-> "illegal_parameter", present |-> FALSE, data |-> NoOut]
  ELSE [ret |-> 1, alert |-> NoAlert, present |-> hits = 1,
        data |-> IF hits = 1 THEN FindExtension(extensions, n, ext_id) ELSE NoOut]

\* TLSEXT_TYPE_early_data from draft 21 on, before it
\* TLSEXT_TYPE_ticket_early_data_info.
TicketExtensionId(version) ==
  IF ssl_is_draft21(version) THEN 42 ELSE 46

\* What tls13_process_new_session_ticket did: its return value, the alert it
\* sent, the session it made (timeout 0 - 1 stands for none) and whether
\* new_session_cb was given it.
Processed(ret, alert, session, offered) ==
  [processed |-> 1, ret |-> ret, alert |-> alert, session |-> session,
   offered |-> offered]

\* tls13_process_new_session_ticket capping the lifetime at the larger of
\* the two values.
CapTimeout_max(timeout, server_timeout) ==
  IF timeout > server_timeout THEN timeout ELSE server_timeout

\* if (session->timeout > server_timeout) session->timeout = server_timeout;
CapTimeout(timeout, server_timeout) ==
  IF timeout > server_timeout THEN server_timeout ELSE timeout

\* tls13_process_new_session_ticket(ssl, msg); body is the CBS over
\* msg.body. dup_ok, stow_ok and derive_ok are whether SSL_SESSION_dup,
\* CBS_stow and tls13_derive_session_psk succeed.
tls13_process_new_session_ticket(ssl, body, dup_ok, elapsed, stow_ok, derive_ok) ==
  LET rebased == ssl_session_rebase_time(ssl.established_session, elapsed)
      server_timeout == CBS_get_u32(body)
      ticket_age_add == CBS_get_u32(server_timeout.cbs)
      ticket_nonce == IF ssl_is_draft21(ssl.version)
                        THEN CBS_get_u8_length_prefixed(ticket_age_add.cbs, NoOut)
                        ELSE [ret |-> 1, cbs |-> ticket_age_add.cbs, out |-> NoOut]
      tick == CBS_get_u16_length_prefixed(ticket_nonce.cbs, NoOut)
      stowed == CBS_stow(tick.out, stow_ok)
      extensions == CBS_get_u16_length_prefixed(tick.cbs, NoOut)
      decoded == /\ server_timeout.ret = 1
                 /\ ticket_age_add.ret = 1
                 /\ ticket_nonce.ret = 1
                 /\ tick.ret = 1
                 /\ stowed.ret = 1
                 /\ extensions.ret = 1
                 /\ CBS_len(extensions.cbs) = 0
      capped == [rebased EXCEPT
                   !.ticket_age_add = U32Val(ticket_age_add.val),
                   !.tlsext_ticklen = stowed.len,
                   !.timeout = CapTimeout(@, U32Val(server_timeout.val))]
      parsed == ssl_parse_extensions_bytes(extensions.out, TicketExtensionId(ssl.version))
      max_early_data == CBS_get_u32(parsed.data)
      with_early == IF parsed.present /\ ssl.enable_early_data
                      THEN [capped EXCEPT !.ticket_max_early_data = U32Val(max_early_data.val)]
                      ELSE capped
      session == [with_early EXCEPT !.ticket_age_add_valid = 1, !.not_resumable = 0]
  IN
  IF ssl.write_shutdown THEN Processed(1, NoAlert, ssl.established_session, FALSE)
  ELSE IF ~dup_ok THEN Processed(0, NoAlert, ssl.established_session, FALSE)
  ELSE IF ~decoded THEN Processed(0, "decode_error", ssl.established_session, FALSE)
  ELSE IF ~derive_ok THEN Processed(0, NoAlert, capped, FALSE)
  ELSE IF parsed.ret = 0 THEN Processed(0, parsed.alert, capped, FALSE)
  ELSE IF /\ parsed.present
          /\ ssl.enable_early_data
          /\ (max_early_data.ret = 0 \/ CBS_len(max_early_data.cbs) # 0)
    THEN Processed(0, "decode_error", capped, FALSE)
  ELSE Processed(1, NoAlert, session, ssl.new_session_cb)

\* The four bytes of a uint32_t on the wire.
U32Bytes(v) == <<v \div 16777216, (v \div 65536) % 256, (v \div 256) % 256, v % 256>>

\* Lifetimes in seconds: none, an hour, two hours, and 2^31 - 1, the largest
\* the model's integers hold (the code's are uint32_t and are only compared
\* and subtracted from above).
Timeouts == {0, 3600, 7200, 2147483647}

\* The seconds between the session's time and now; negative when the clock
\* went back.
ElapsedTimes == {0 - 1, 0, 60, 5000}

\* The extension blocks of a NewSessionTicket: none, early_data with a
\* uint32_t, early_data cut short, ticket_early_data_info, an unknown one,
\* early_data twice.
TicketExtensionBlocks ==
  { <<>>,
    WireExtension(42, U32Bytes(1024)),
    WireExtension(42, <<0, 4>>),
    WireExtension(46, U32Bytes(1024)),
    WireExtension(1, <<>>),
    WireExtension(42, U32Bytes(1024)) \o WireExtension(42, U32Bytes(0)) }

\* NewSessionTicket bodies: whole, cut short and with a stray byte.
NewSessionTicketBodies ==
  LET whole ==
        { U32Bytes(lifetime) \o U32Bytes(1) \o nonce \o tick
            \o U16Bytes(Len(block)) \o block :
            lifetime \in Timeouts,
            nonce \in {<<>>, <<1, 7>>},
            tick \in {<<0, 0>>, <<0, 1, 9>>},
            block \in TicketExtensionBlocks }
  IN whole \cup { SubSeq(b, 1, Len(b) - 1) : b \in whole } \cup { b \o <<0>> : b \in whole }

EstablishedSession(timeout) ==
  [timeout |-> timeout, ticket_age_add |-> 0, ticket_age_add_valid |-> 0,
   tlsext_ticklen |-> 0, ticket_max_early_data |-> 0, not_resumable |-> 1]

InitNST ==
  /\ buf \in NewSessionTicketBodies
  /\ cbs = CBS_init(0, Len(buf))
  /\ out = NoOut
  /\ last = [op |-> "CBS_init", arg |-> Len(buf), ret |-> 1, pre |-> cbs, val |-> U32Zero]
  /\ \E version \in {"TLS1_3_DRAFT_VERSION", "TLS1_3_DRAFT21_VERSION"},
        timeout \in Timeouts, shutdown \in BOOLEAN, early \in BOOLEAN, cb \in BOOLEAN :
       hs = [version |-> version,
             write_shutdown |-> shutdown,
             established_session |-> EstablishedSession(timeout),
             enable_early_data |-> early,
             new_session_cb |-> cb]
  /\ queue = <<>>
  /\ log = <<>>
  /\ drv = [pc |-> "idle"]
  /\ hello = [count |-> 0]
  /\ scan = [decoded |-> 0]
  /\ ticket = [processed |-> 0]
  /\ cbb = [ops |-> 0]

\* The client is handed a NewSessionTicket after the handshake.
ProcessNewSessionTicket ==
  /\ ticket.processed = 0
  /\ \E dup_ok \in BOOLEAN, elapsed \in ElapsedTimes, stow_ok \in BOOLEAN,
        derive_ok \in BOOLEAN :
       ticket' = [elapsed |-> elapsed]
                   @@ tls13_process_new_session_ticket(hs, cbs, dup_ok, elapsed,
                                                       stow_ok, derive_ok)
  /\ UNCHANGED <<buf, cbs, out, last, hs, queue, log, drv, hello, scan, cbb>>

NextNST == ProcessNewSessionTicket

SpecNST == InitNST /\ [][NextNST]_vars

\* A NewSessionTicket was processed with success and made a session.
TicketStored == ticket.processed = 1 /\ ticket.ret = 1 /\ ~hs.write_shutdown

\* The lifetime the server advertised: the first four bytes of the message.
AdvertisedLifetime == ((buf[1] * 256 + buf[2]) * 256 + buf[3]) * 256 + buf[4]

\* The timeout the session has when the message is read: that of the
\* established session, rebased to the current time.
ExistingTimeout == ssl_session_rebase_time(hs.established_session, ticket.elapsed).timeout

Min(a, b) == IF a < b THEN a ELSE b

SSL_TICKET_KEY_NAME_LEN == 16

EVP_MAX_IV_LENGTH == 16

SSL_MAX_SSL_SESSION_ID_LENGTH == 32

INT_MAX == 2147483647

\* EVP_CIPHER_CTX_iv_length of AES-128-CBC and HMAC_size of HMAC-SHA256.
TicketIvLen == 16

TicketMacLen == 32

\* What the processing of a ticket came to: the result, the session and
\* *out_renew_ticket, the cryptographic operations in their order, and for
\* the result error the failure it reports.
Ticketed(result, session, renew, ops) ==
  [result |-> result, session |-> session, renew |-> renew, ops |-> ops,
   cause |-> "none"]

TicketError(cause, ops) ==
  [result |-> "error", session |-> "none", renew |-> FALSE, ops |-> ops,
   cause |-> cause]

\* decrypt_ticket_with_cipher_ctx decrypting before it checks the MAC.
decrypt_ticket_with_cipher_ctx_decrypt_first(t, cipher_key, hmac_key, alloc_ok) ==
  IF t.len < SSL_TICKET_KEY_NAME_LEN + TicketIvLen + 1 + TicketMacLen
    THEN Ticketed("ignore_ticket", "none", FALSE, <<>>)
  ELSE IF ~alloc_ok THEN TicketError("OPENSSL_malloc", <<>>)
  ELSE IF t.enc_by # cipher_key
    THEN Ticketed("ignore_ticket", "none", FALSE, <<"EVP_Decrypt">>)
  ELSE IF t.mac_by # hmac_key
    THEN Ticketed("ignore_ticket", "none", FALSE, <<"EVP_Decrypt", "HMAC">>)
  ELSE Ticketed("success", "plaintext", FALSE, <<"EVP_Decrypt", "HMAC">>)

\* decrypt_ticket_with_cipher_ctx(out, out_len, cipher_ctx, hmac_ctx, ticket,
\* ticket_len); cipher_key and hmac_key are the keys the contexts were
\* initialised with, alloc_ok whether OPENSSL_malloc got the plaintext.
decrypt_ticket_with_cipher_ctx(t, cipher_key, hmac_key, alloc_ok) ==
  LET ciphertext_len == t.len - SSL_TICKET_KEY_NAME_LEN - TicketIvLen - TicketMacLen IN
  IF t.len < SSL_TICKET_KEY_NAME_LEN + TicketIvLen + 1 + TicketMacLen
    THEN Ticketed("ignore_ticket", "none", FALSE, <<>>)
  ELSE IF t.mac_by # hmac_key
    THEN Ticketed("ignore_ticket", "none", FALSE, <<"HMAC">>)
  ELSE IF ~alloc_ok THEN TicketError("OPENSSL_malloc", <<"HMAC">>)
  ELSE IF ciphertext_len >= INT_MAX
    THEN Ticketed("ignore_ticket", "none", FALSE, <<"HMAC">>)
  ELSE IF t.enc_by # cipher_key
    THEN Ticketed("ignore_ticket", "none", FALSE, <<"HMAC", "EVP_Decrypt">>)
  ELSE Ticketed("success", "plaintext", FALSE, <<"HMAC", "EVP_Decrypt">>)

\* ssl_decrypt_ticket_with_cb; cb_ret is what tlsext_ticket_key_cb returns
\* and cb_key the key it initialised the contexts with.
ssl_decrypt_ticket_with_cb(t, cb_ret, cb_key, alloc_ok) ==
  LET decrypted == decrypt_ticket_with_cipher_ctx(t, cb_key, cb_key, alloc_ok) IN
  IF cb_ret < 0 THEN TicketError("tlsext_ticket_key_cb", <<>>)
  ELSE IF cb_ret = 0 THEN Ticketed("ignore_ticket", "none", FALSE, <<>>)
  ELSE [decrypted EXCEPT !.renew = (cb_ret = 2)]

\* ssl_decrypt_ticket_with_ticket_keys; rotate_ok and init_ok are whether
\* ssl_ctx_rotate_ticket_encryption_key and the two context initialisations
\* succeed.
ssl_decrypt_ticket_with_ticket_keys(ctx, t, rotate_ok, init_ok, alloc_ok) ==
  LET key == IF ctx.tlsext_ticket_key_current # "none"
                  /\ ctx.tlsext_ticket_key_current = t.name
               THEN ctx.tlsext_ticket_key_current
             ELSE IF ctx.tlsext_ticket_key_prev # "none"
                       /\ ctx.tlsext_ticket_key_prev = t.name
               THEN ctx.tlsext_ticket_key_prev
             ELSE "none"
  IN
  IF ~rotate_ok THEN TicketError("ssl_ctx_rotate_ticket_encryption_key", <<>>)
  ELSE IF key = "none" THEN Ticketed("ignore_ticket", "none", FALSE, <<>>)
  ELSE IF ~init_ok THEN TicketError("HMAC_Init_ex", <<>>)
  ELSE decrypt_ticket_with_cipher_ctx(t, key, key, alloc_ok)

\* ssl_decrypt_ticket_with_method; opened is what ticket_aead_method->open
\* returns.
ssl_decrypt_ticket_with_method(t, opened, alloc_ok) ==
  IF ~alloc_ok THEN TicketError("OPENSSL_malloc", <<>>)
  ELSE IF opened = "error" THEN TicketError("ticket_aead_method", <<"open">>)
  ELSE Ticketed(opened, IF opened = "success" THEN "plaintext" ELSE "none", FALSE,
                <<"open">>)

\* ssl_process_ticket(ssl, out_session, out_renew_ticket, ticket, ticket_len,
\* session_id, session_id_len)
ssl_process_ticket(ctx, t, opened, cb_ret, cb_key, rotate_ok, init_ok, alloc_ok) ==
  LET decrypted ==
        IF ctx.ticket_aead_method
          THEN ssl_decrypt_ticket_with_method(t, opened, alloc_ok)
        ELSE IF ctx.tlsext_ticket_key_cb
          THEN ssl_decrypt_ticket_with_cb(t, cb_ret, cb_key, alloc_ok)
        ELSE ssl_decrypt_ticket_with_ticket_keys(ctx, t, rotate_ok, init_ok, alloc_ok)
  IN
  IF ctx.no_ticket \/ t.session_id_len > SSL_MAX_SSL_SESSION_ID_LENGTH
    THEN Ticketed("ignore_ticket", "none", FALSE, <<>>)
  ELSE IF /\ ~ctx.ticket_aead_method
          /\ t.len < SSL_TICKET_KEY_NAME_LEN + EVP_MAX_IV_LENGTH
    THEN Ticketed("ignore_ticket", "none", FALSE, <<>>)
  ELSE IF decrypted.result # "success" THEN [decrypted EXCEPT !.session = "none"]
  ELSE IF ~t.decodes THEN [decrypted EXCEPT !.result = "ignore_ticket", !.session = "none"]
  ELSE [decrypted EXCEPT !.session = "session"]

\* The names of ticket keys: the previous, the current, and one the server
\* no longer has.
TicketKeys == {"k1", "k2", "k0"}

\* Ticket lengths around the two thresholds, 32 and 65.
TicketLengths == {0, 31, 32, 64, 65, 112}

\* The tickets: the MAC and the ciphertext are those of one of the server's
\* two keys or of none.
Tickets ==
  [len : TicketLengths, name : TicketKeys, mac_by : {"k1", "k2", "none"},
   enc_by : {"k1", "k2", "none"}, decodes : BOOLEAN, session_id_len : {32, 33}]

TicketContexts ==
  [no_ticket : BOOLEAN, ticket_aead_method : BOOLEAN, tlsext_ticket_key_cb : BOOLEAN,
   tlsext_ticket_key_current : {"k2"}, tlsext_ticket_key_prev : {"k1", "none"}]

InitTicket ==
  /\ hs \in TicketContexts
  /\ ticket \in [processed : {0}, t : Tickets]
  /\ cbb = [ops |-> 0]
  /\ buf = <<>>
  /\ cbs = CBS_init(0, 0)
  /\ out = NoOut
  /\ last = [op |-> "CBS_init", arg |-> 0, ret |-> 1, pre |-> cbs, val |-> U32Zero]
  /\ queue = <<>>
  /\ log = <<>>
  /\ drv = [pc |-> "idle"]
  /\ hello = [count |-> 0]
  /\ scan = [decoded |-> 0]

\* The server processes the ticket of a ClientHello.
ProcessTicket ==
  /\ ticket.processed = 0
  /\ \E opened \in {"success", "ignore_ticket", "retry", "error"},
        cb_ret \in {0 - 1, 0, 1, 2}, cb_key \in {"k1", "k2"},
        rotate_ok \in BOOLEAN, init_ok \in BOOLEAN, alloc_ok \in BOOLEAN :
       ticket' = [processed |-> 1, t |-> ticket.t]
                   @@ ssl_process_ticket(hs, ticket.t, opened, cb_ret, cb_key,
                                         rotate_ok, init_ok, alloc_ok)
  /\ UNCHANGED <<buf, cbs, out, last, hs, queue, log, drv, hello, scan, cbb>>

NextTicket == ProcessTicket

SpecTicket == InitTicket /\ [][NextTicket]_vars

\* The failures of the server itself that ssl_process_ticket reports as
\* error.
InternalFailures ==
  {"OPENSSL_malloc", "ssl_ctx_rotate_ticket_encryption_key", "HMAC_Init_ex",
   "tlsext_ticket_key_cb", "ticket_aead_method"}

\* The ticket was processed with the built-in ticket keys.
BuiltInKeysUsed ==
  /\ ticket.processed = 1
  /\ ~hs.no_ticket
  /\ ~hs.ticket_aead_method
  /\ ~hs.tlsext_ticket_key_cb

\* The ticket names one of the server's ticket keys.
NamesServerKey(t) ==
  t.name \in {hs.tlsext_ticket_key_current, hs.tlsext_ticket_key_prev} \ {"none"}

\* The ticket is bad for the built-in keys: too short, named for neither
\* key, or its MAC, its ciphertext or its plaintext is not what the named
\* key makes.
BadTicket(t) ==
  \/ t.len < SSL_TICKET_KEY_NAME_LEN + TicketIvLen + 1 + TicketMacLen
  \/ ~NamesServerKey(t)
  \/ t.mac_by # t.name
  \/ t.enc_by # t.name
  \/ ~t.decodes

\* C23: ssl_process_ticket never makes a fatal result of a bad ticket. With
\* the built-in keys a ticket that is too short, names neither the current
\* nor the previous key, fails its MAC, fails decryption or does not decode
\* as a session ends in ignore_ticket unless the server itself failed, with
\* no session returned and no renewal requested. On every path the result
\* error reports a failure of the server itself (allocation, key rotation,
\* initialisation of the contexts, the callback or the method), and no
\* result but success returns a session. The MAC is verified before any
\* decryption of the ciphertext, which is attempted only for a ticket whose
\* MAC verified.
C23_BadTicketIgnored ==
  ticket.processed = 1 =>
    /\ ticket.result = "error" => ticket.cause \in InternalFailures
    /\ ticket.result # "success" => ticket.session = "none"
    /\ (BuiltInKeysUsed /\ BadTicket(ticket.t)) =>
         /\ ticket.result \in {"ignore_ticket", "error"}
         /\ ticket.session = "none"
         /\ ~ticket.renew
    /\ BuiltInKeysUsed => ~ticket.renew
    /\ \A i \in DOMAIN ticket.ops :
         ticket.ops[i] = "EVP_Decrypt" =>
           /\ i = 2
           /\ ticket.ops[1] = "HMAC"
           /\ BuiltInKeysUsed => ticket.t.mac_by = ticket.t.name

\* A ticket named for the previous key whose MAC verifies under it and
\* whose ciphertext does not decrypt is ignored, after the MAC and the
\* decryption in this order.
C23_Witness ==
  /\ BuiltInKeysUsed
  /\ ticket.t.name = "k1"
  /\ hs.tlsext_ticket_key_prev = "k1"
  /\ ticket.t.mac_by = "k1"
  /\ ticket.t.enc_by = "none"
  /\ ticket.result = "ignore_ticket"
  /\ ticket.ops = <<"HMAC", "EVP_Decrypt">>

(***************************************************************************)
(* Alerts of the handlers that read the server's first flight.              *)
(***************************************************************************)

\* The handlers the alert claim is about: do_read_hello_retry_request,
\* do_read_server_hello and do_read_encrypted_extensions.
FirstFlightHandlers ==
  {state_read_hello_retry_request, state_read_server_hello,
   state_read_encrypted_extensions}

\* The handler that ran last returned ssl_hs_error because of what the peer's
\* message holds (a protocol or parse failure, not an allocation, hashing or
\* key-derivation failure).
ProtocolErrorReturned ==
  /\ drv.pc = "idle"
  /\ drv.wait = "error"
  /\ drv.cause = "message"
  /\ drv.handler \in FirstFlightHandlers

\* C24: whenever one of the handlers reading the server's first flight
\* returns error because of a protocol or parse failure, it has sent a fatal
\* alert for the failure before returning.
C24_ProtocolErrorAlerts ==
  ProtocolErrorReturned => drv.alert # NoAlert

(***************************************************************************)
(* An error return ends the handshake.                                      *)
(***************************************************************************)

\* The last return value of tls13_client_handshake was ssl_hs_error.
HandshakeFailed == drv.pc = "idle" /\ drv.wait = "error"

DerTags == {2, 48, 31, 63}

\* First length octets: short forms, the indefinite form 0x80, long forms of
\* one to five octets and 0xff.
DerLengthBytes == {0, 3, 127, 128, 129, 130, 131, 132, 133, 255}

\* Values of the octets that follow.
DerOctets == {0, 1, 128, 255}

DerHeaders ==
  {<<t, l, a, b, c, d>> : t \in DerTags, l \in DerLengthBytes,
                          a \in DerOctets, b \in DerOctets,
                          c \in DerOctets, d \in DerOctets}

\* The big-endian value of a sequence of octets.
RECURSIVE OctetsValue(_)
OctetsValue(octets) ==
  IF octets = <<>> THEN 0
  ELSE OctetsValue(SubSeq(octets, 1, Len(octets) - 1)) * 256 + octets[Len(octets)]

\* 256^n
RECURSIVE Pow256(_)
Pow256(n) == IF n = 0 THEN 1 ELSE 256 * Pow256(n - 1)

\* What the header in bytes h declares: the form of the length, the number
\* of length octets after the first, and the length itself. A length of four
\* octets that starts with 0x40 or more is at least 2^30, more than any span
\* of the model holds; its value is left out.
DerHeader(h) ==
  LET lb == h[2]
      n == lb - 128
      octets == SubSeq(h, 3, 2 + n)
  IN IF lb < 128 THEN [form |-> "short", octets |-> 0, fits |-> TRUE, length |-> lb]
     ELSE IF n = 0 THEN [form |-> "indefinite", octets |-> 0, fits |-> FALSE, length |-> 0]
     ELSE IF n > 4 THEN [form |-> "too long", octets |-> n, fits |-> FALSE, length |-> 0]
     ELSE IF n = 4 /\ h[3] >= 64
       THEN [form |-> "long", octets |-> n, fits |-> FALSE, length |-> 0]
     ELSE [form |-> "long", octets |-> n, fits |-> TRUE, length |-> OctetsValue(octets)]

\* Span lengths around the six header bytes and around the element the
\* header declares.
SpanLens(h) ==
  LET d == DerHeader(h)
      total == 2 + d.octets + d.length
  IN {0, 1, 2, 3, 5, 6} \cup (IF d.fits THEN {total - 1, total, total + 1} ELSE {})

InitDER ==
  /\ buf \in DerHeaders
  /\ \E n \in SpanLens(buf) : cbs = CBS_init(0, n)
  /\ out = NoOut
  /\ last = [op |-> "CBS_init", arg |-> cbs.len, ret |-> 1, pre |-> cbs, val |-> U32Zero]
  /\ HsIdle

\* One call of CBS_get_any_asn1_element on the fresh cursor.
DecodeElement ==
  /\ last.op = "CBS_init"
  /\ Do_CBS_get_any_asn1_element

NextDER == DecodeElement

SpecDER == InitDER /\ [][NextDER]_vars

\* CBS_get_any_asn1_element has been called; last.pre is the cursor it got.
ElementDecoded == last.op = "CBS_get_any_asn1_element"

\* The tag/length header of DER as the claim words it: a tag number below
\* 31, and a length in short form or in long form with one to four octets
\* whose value is at least 128 and does not fit in one octet less.
DerHeaderAcceptable(h) ==
  LET d == DerHeader(h)
  IN /\ h[1] % 32 < 31
     /\ \/ d.form = "short"
        \/ /\ d.form = "long"
           /\ d.octets \in 1..4
           /\ ~d.fits \/ (d.length >= 128 /\ d.length >= Pow256(d.octets - 1))

\* header_len as the claim words it.
DerHeaderLen(h) ==
  IF DerHeader(h).form = "short" THEN 2 ELSE 2 + DerHeader(h).octets

\* C26: in DER mode CBS_get_any_asn1_element succeeds if and only if the
\* header has a tag number below 31 and a short-form length or a minimal
\* long-form length of one to four octets with value >= 128 (so never for a
\* first length octet 0x80 or 0xff or for more than four length octets) and
\* the span holds header_len plus the declared length bytes; on success the
\* element returned starts at the cursor and spans exactly header_len plus
\* the declared length bytes, the cursor has moved past it, and header_len
\* is 2 for the short form and 2 plus the number of length octets otherwise.
C26_DerHeader ==
  ElementDecoded =>
    LET d == DerHeader(buf)
        enough == /\ last.pre.len >= 2
                  /\ d.fits
                  /\ last.pre.len >= DerHeaderLen(buf) + d.length
    IN /\ last.ret = 1 <=> (DerHeaderAcceptable(buf) /\ enough)
       /\ buf[2] \in {128, 255} => last.ret = 0
       /\ buf[2] > 132 => last.ret = 0
       /\ last.ret = 1 =>
            /\ out = CBS_init(last.pre.data, DerHeaderLen(buf) + d.length)
            /\ last.arg = DerHeaderLen(buf)
            /\ last.val.lo = buf[1]
            /\ cbs = CBS_init(last.pre.data + out.len, last.pre.len - out.len)
       /\ last.ret = 0 => cbs = last.pre

\* A long-form length of two octets was accepted.
C26_Witness ==
  /\ ElementDecoded
  /\ last.ret = 1
  /\ buf[2] = 130
  /\ out.len = 4 + 256 + 128
  /\ cbs.len = 1

(***************************************************************************)
(* The byte builder CBB (specification SpecCBB)                             *)
(*                                                                         *)
(* crypto/bytestring/cbb.c is not among the sources; the builder follows    *)
(* its description (a growable buffer and the open length-prefixed          *)
(* sections, each with its recorded start and prefix width, closed in LIFO  *)
(* order; a write into a builder first closes the sections still open       *)
(* below it). The two add callbacks are those of ssl/t1_lib.cc.             *)
(*                                                                         *)
(* The buffer is a sequence of runs of equal bytes, so that a body of 2^24  *)
(* bytes is one element. Every byte of a prefix or of an integer is a run   *)
(* of its own.                                                             *)
(***************************************************************************)

\* The deepest nesting and the number of calls of the generic behaviours.
MaxDepth == 2

MaxOps == 4

Run(n, v) == [n |-> n, v |-> v]

\* The byte the bodies are filled with.
ContentByte == 170

\* CBB_len of the whole buffer.
RECURSIVE BuilderLen(_)
BuilderLen(runs) ==
  IF runs = <<>> THEN 0 ELSE Head(runs).n + BuilderLen(Tail(runs))

\* The byte at offset i of the buffer (offsets start at 0).
RECURSIVE ByteOf(_, _)
ByteOf(runs, i) ==
  IF i < Head(runs).n THEN Head(runs).v ELSE ByteOf(Tail(runs), i - Head(runs).n)

\* len as w big-endian bytes, the low w bytes of len if it has more.
BigEndianBytes(len, w) == [k \in 1..w |-> (len \div Pow256(w - k)) % 256]

\* CBB_init / CBB_zero: an empty builder with no open section. flushed and
\* failed keep the sections closed so far and the one a flush failed on; ops,
\* ret and callback say what was called on the builder and what the last
\* call returned.
EmptyBuilder ==
  [runs |-> <<>>, open |-> <<>>, ok |-> TRUE, flushed |-> <<>>, failed |-> <<>>,
   ops |-> 0, ret |-> 1, callback |-> "none"]

\* A flush that writes the low bytes of a length that does not fit.
FlushSection_truncating(c) ==
  LET s == c.open[Len(c.open)]
      len == BuilderLen(c.runs) - s.offset - s.width
      bytes == BigEndianBytes(len, s.width)
  IN [c EXCEPT !.runs = [i \in 1..Len(c.runs) |->
                           IF i \in s.idx..(s.idx + s.width - 1)
                             THEN Run(1, bytes[i - s.idx + 1]) ELSE c.runs[i]],
               !.open = SubSeq(c.open, 1, Len(c.open) - 1),
               !.flushed = Append(c.flushed, s)]

\* Closing the innermost open section: the length of what follows the prefix
\* is written into the prefix at the recorded start, and the flush fails if
\* it does not fit in the prefix.
FlushSection(c) ==
  LET s == c.open[Len(c.open)]
      len == BuilderLen(c.runs) - s.offset - s.width
      bytes == BigEndianBytes(len, s.width)
  IN IF len >= Pow256(s.width)
       THEN [c EXCEPT !.ok = FALSE, !.failed = <<s>>]
     ELSE [c EXCEPT !.runs = [i \in 1..Len(c.runs) |->
                                IF i \in s.idx..(s.idx + s.width - 1)
                                  THEN Run(1, bytes[i - s.idx + 1]) ELSE c.runs[i]],
                    !.open = SubSeq(c.open, 1, Len(c.open) - 1),
                    !.flushed = Append(c.flushed, s)]

\* CBB_flush on the builder at depth d (0 is the outermost): the sections
\* open below it are closed, the innermost first.
RECURSIVE CBB_flush(_, _)
CBB_flush(c, d) ==
  IF ~c.ok \/ Len(c.open) <= d THEN c
  ELSE LET c1 == FlushSection(c)
       IN IF c1.ok THEN CBB_flush(c1, d) ELSE c1

\* Appending the runs, n bytes in all, to the builder at depth d. written
\* counts, for every open section, the bytes added to its body.
cbb_add(c, d, runs, n) ==
  LET c1 == CBB_flush(c, d)
  IN IF ~c1.ok THEN c1
     ELSE [c1 EXCEPT !.runs = @ \o runs,
                     !.open = [i \in 1..Len(c1.open) |->
                                 [c1.open[i] EXCEPT !.written = @ + n]]]

CBB_add_bytes(c, d, len) ==
  cbb_add(c, d, IF len = 0 THEN <<>> ELSE <<Run(len, ContentByte)>>, len)

cbb_add_u(c, d, v, len_len) ==
  LET bytes == BigEndianBytes(v, len_len)
  IN cbb_add(c, d, [k \in 1..len_len |-> Run(1, bytes[k])], len_len)

CBB_add_u8(c, d, v) == cbb_add_u(c, d, v, 1)

CBB_add_u16(c, d, v) == cbb_add_u(c, d, v, 2)

CBB_add_u32(c, d, v) == cbb_add_u(c, d, v, 4)

\* CBB_add_u8/u16/u24_length_prefixed: len_len zero bytes are reserved and
\* the child, one level below d, starts behind them.
cbb_add_length_prefixed(c, d, len_len) ==
  LET c1 == cbb_add(c, d, [k \in 1..len_len |-> Run(1, 0)], len_len)
      c0 == CBB_flush(c, d)
  IN IF ~c1.ok THEN c1
     ELSE [c1 EXCEPT !.open = Append(@, [offset |-> BuilderLen(c0.runs),
                                         idx |-> Len(c0.runs) + 1,
                                         width |-> len_len,
                                         written |-> 0])]

CBB_add_u8_length_prefixed(c, d) == cbb_add_length_prefixed(c, d, 1)

CBB_add_u16_length_prefixed(c, d) == cbb_add_length_prefixed(c, d, 2)

CBB_add_u24_length_prefixed(c, d) == cbb_add_length_prefixed(c, d, 3)

\* ext_sni_add_clienthello on the builder out: out is at depth 0, contents,
\* server_name_list and name below it. hostname_len < 0 stands for
\* ssl->tlsext_hostname == NULL. The result is the builder and the return
\* value.
ext_sni_add_clienthello_bytes(out_cbb, hostname_len) ==
  IF hostname_len < 0 THEN [cbb |-> out_cbb, ret |-> 1]
  ELSE LET c1 == CBB_add_u16(out_cbb, 0, TLSEXT_TYPE("server_name"))
           c2 == CBB_add_u16_length_prefixed(c1, 0)
           c3 == CBB_add_u16_length_prefixed(c2, 1)
           c4 == CBB_add_u8(c3, 2, 0)          \* TLSEXT_NAMETYPE_host_name
           c5 == CBB_add_u16_length_prefixed(c4, 2)
           c6 == CBB_add_bytes(c5, 3, hostname_len)
           c7 == CBB_flush(c6, 0)
       IN [cbb |-> c7, ret |-> IF c7.ok THEN 1 ELSE 0]

\* ext_pre_shared_key_add_clienthello on the builder out, for a client that
\* offers its session (offer) with a ticket of ticklen bytes and a binder of
\* binder_len bytes: contents at depth 1, identity and then binders at depth
\* 2, ticket and then binder at depth 3. 41 is TLSEXT_TYPE_pre_shared_key.
ext_pre_shared_key_add_clienthello_bytes(out_cbb, offer, ticklen, binder_len, age) ==
  IF ~offer THEN [cbb |-> out_cbb, ret |-> 1]
  ELSE LET c1 == CBB_add_u16(out_cbb, 0, 41)
           c2 == CBB_add_u16_length_prefixed(c1, 0)
           c3 == CBB_add_u16_length_prefixed(c2, 1)
           c4 == CBB_add_u16_length_prefixed(c3, 2)
           c5 == CBB_add_bytes(c4, 3, ticklen)
           c6 == CBB_add_u32(c5, 2, age)
           c7 == CBB_add_u16_length_prefixed(c6, 1)
           c8 == CBB_add_u8_length_prefixed(c7, 2)
           c9 == CBB_add_bytes(c8, 3, binder_len)
           c10 == CBB_flush(c9, 0)
       IN [cbb |-> c10, ret |-> IF c10.ok THEN 1 ELSE 0]

\* Body sizes at and around the limits of the three prefix widths.
AddLens == {0, 1, 255, 256, 65535, 65536, 16777216}

\* strlen(ssl->tlsext_hostname), or -1 for no hostname; 65531 bytes make
\* server_name_list one byte longer than contents can say.
SniHostnameLens == {0 - 1, 0, 1, 11, 255, 65530, 65531}

\* ssl->session->tlsext_ticklen and EVP_MD_size of the session's digest.
PskTicketLens == {0, 16, 250, 65486, 65487, 65529, 65530}

PskBinderLens == {32, 48}

InitCBB ==
  /\ cbb = EmptyBuilder
  /\ buf = <<>>
  /\ cbs = CBS_init(0, 0)
  /\ out = NoOut
  /\ last = [op |-> "CBS_init", arg |-> 0, ret |-> 1, pre |-> cbs, val |-> U32Zero]
  /\ hs = [tls13_state |-> 0]
  /\ queue = <<>>
  /\ log = <<>>
  /\ drv = [pc |-> "idle"]
  /\ hello = [count |-> 0]
  /\ scan = [decoded |-> 0]
  /\ ticket = [processed |-> 0]

cbbOtherVars == <<buf, cbs, out, last, hs, queue, log, drv, hello, scan, ticket>>

\* One call on the builder left it as c.
CbbCall(c) ==
  /\ cbb.ok
  /\ cbb.callback = "none"
  /\ cbb.ops < MaxOps
  /\ cbb' = [c EXCEPT !.ops = cbb.ops + 1, !.ret = IF c.ok THEN 1 ELSE 0]
  /\ UNCHANGED cbbOtherVars

Do_CBB_add_bytes ==
  \E d \in 0..Len(cbb.open), n \in AddLens : CbbCall(CBB_add_bytes(cbb, d, n))

Do_CBB_add_length_prefixed ==
  \E d \in 0..Len(cbb.open), w \in 1..3 :
    /\ d < MaxDepth
    /\ CbbCall(cbb_add_length_prefixed(cbb, d, w))

Do_CBB_flush ==
  \E d \in 0..Len(cbb.open) : CbbCall(CBB_flush(cbb, d))

\* An add callback ran on the fresh builder.
CallbackCall(name, r) ==
  /\ cbb.ops = 0
  /\ cbb.callback = "none"
  /\ cbb' = [r.cbb EXCEPT !.ops = 1, !.ret = r.ret, !.callback = name]
  /\ UNCHANGED cbbOtherVars

SniAddClientHello ==
  \E hostname_len \in SniHostnameLens :
    CallbackCall("server_name", ext_sni_add_clienthello_bytes(cbb, hostname_len))

PreSharedKeyAddClientHello ==
  \E offer \in BOOLEAN, ticklen \in PskTicketLens, binder_len \in PskBinderLens,
     age \in {0, 1000, 16909060} :
    CallbackCall("pre_shared_key",
                 ext_pre_shared_key_add_clienthello_bytes(cbb, offer, ticklen,
                                                          binder_len, age))

NextCBB ==
  \/ Do_CBB_add_bytes
  \/ Do_CBB_add_length_prefixed
  \/ Do_CBB_flush
  \/ SniAddClientHello
  \/ PreSharedKeyAddClientHello

SpecCBB == InitCBB /\ [][NextCBB]_vars

\* The value of the length prefix of section s as it stands in the buffer.
PrefixValue(s) ==
  OctetsValue([k \in 1..s.width |-> ByteOf(cbb.runs, s.offset + k - 1)])

\* The two-byte big-endian number at offset i of the buffer.
U16At(i) == ByteOf(cbb.runs, i) * 256 + ByteOf(cbb.runs, i + 1)

\* An add callback returned true after writing an extension.
ExtensionEmitted ==
  cbb.callback # "none" /\ cbb.ret = 1 /\ cbb.runs # <<>>

\* C27: for sections of prefix width 1, 2 or 3 at any depth, a flush writes
\* at the section's recorded start the big-endian number of bytes written
\* into its body (its closed children included); a flush fails exactly when
\* a body does not fit its prefix, and then no prefix is written for it; and
\* what an add callback emits is a u16 type, a u16 length and exactly that
\* many bytes of contents, with no section left open.
C27_PrefixIsBodyLength ==
  /\ \A i \in DOMAIN cbb.flushed :
       LET s == cbb.flushed[i]
       IN /\ s.written < Pow256(s.width)
          /\ PrefixValue(s) = s.written
  /\ \A i \in DOMAIN cbb.failed :
       /\ cbb.failed[i].written >= Pow256(cbb.failed[i].width)
       /\ cbb.failed[i] \in {cbb.open[j] : j \in DOMAIN cbb.open}
  /\ cbb.ok <=> cbb.failed = <<>>
  /\ cbb.ret = 1 <=> cbb.ok
  /\ ExtensionEmitted =>
       /\ cbb.open = <<>>
       /\ U16At(0) = (IF cbb.callback = "server_name" THEN 0 ELSE 41)
       /\ BuilderLen(cbb.runs) = 4 + U16At(2)

\* pre_shared_key was emitted with a ticket and a binder: sections of width
\* one and two, three levels deep, were flushed.
C27_Witness ==
  /\ ExtensionEmitted
  /\ cbb.callback = "pre_shared_key"
  /\ Len(cbb.flushed) = 5
  /\ \E i \in DOMAIN cbb.flushed :
       cbb.flushed[i].width = 1 /\ cbb.flushed[i].written = 48
  /\ BuilderLen(cbb.runs) = 4 + 2 + 2 + 250 + 4 + 2 + 1 + 48

(***************************************************************************)
(* ssl/t1_lib.cc: the extension block of a hello, written and read back     *)
(* (specification SpecBlock). One side writes the block with the builder,  *)
(* or a peer sends a hello without one; hs is the side that decodes it.     *)
(***************************************************************************)

\* CBB_discard_child on the builder at depth d: the buffer is cut back to
\* where the child's length prefix starts and the child is forgotten.
CBB_discard_child(c, d) ==
  IF Len(c.open) <= d THEN c
  ELSE LET s == c.open[d + 1]
           dropped == BuilderLen(c.runs) - s.offset
       IN [c EXCEPT !.runs = SubSeq(c.runs, 1, s.idx - 1),
                    !.open = [i \in 1..d |-> [c.open[i] EXCEPT !.written = @ - dropped]]]

\* CBB_len of the innermost open child.
ChildLen(c) ==
  LET s == c.open[Len(c.open)] IN BuilderLen(c.runs) - s.offset - s.width

\* The add callbacks wrote the bytes written into the child at depth d.
AddCallbacksWrote(c, d, written) ==
  cbb_add(c, d, [i \in 1..Len(written) |-> Run(1, written[i])], Len(written))

\* ssl_add_clienthello_tlsext from CBB_add_u16_length_prefixed(out,
\* &extensions) on, the callbacks having written the bytes written.
ssl_add_clienthello_tlsext_block(out_cbb, written) ==
  LET c1 == CBB_add_u16_length_prefixed(out_cbb, 0)
      c2 == AddCallbacksWrote(c1, 1, written)
      \* Discard empty extensions blocks.
      c3 == IF ChildLen(c2) = 0 THEN CBB_discard_child(c2, 0) ELSE c2
      c4 == CBB_flush(c3, 0)
  IN [cbb |-> c4, ret |-> IF c4.ok THEN 1 ELSE 0]

\* A server that discards an empty block whatever the version.
ssl_add_serverhello_tlsext_discarding(h, out_cbb, written) ==
  ssl_add_clienthello_tlsext_block(out_cbb, written)

\* ssl_add_serverhello_tlsext(hs, out), the callbacks having written the
\* bytes written.
ssl_add_serverhello_tlsext(h, out_cbb, written) ==
  LET c1 == CBB_add_u16_length_prefixed(out_cbb, 0)
      c2 == AddCallbacksWrote(c1, 1, written)
      \* Discard empty extensions blocks before TLS 1.3.
      c3 == IF h.version # "TLS1_3" /\ ChildLen(c2) = 0
              THEN CBB_discard_child(c2, 0) ELSE c2
      c4 == CBB_flush(c3, 0)
  IN [cbb |-> c4, ret |-> IF c4.ok THEN 1 ELSE 0]

\* The bytes of the buffer, one by one.
RECURSIVE BuilderBytes(_)
BuilderBytes(runs) ==
  IF runs = <<>> THEN <<>>
  ELSE [i \in 1..Head(runs).n |-> Head(runs).v] \o BuilderBytes(Tail(runs))

\* What the callbacks write: up to MaxExtensions whole extensions.
WrittenBlocks ==
  { Concat(parts) : parts \in UNION { [1..n -> WireExtensions] : n \in 0..MaxExtensions } }

\* The decoding sides: the clients and servers of ScanConfigs and a TLS 1.3
\* server.
BlockConfigs ==
  ScanConfigs
  \cup { [server |-> TRUE, version |-> "TLS1_3", extensions_sent |-> {}, scsv |-> scsv,
           alert_writers |-> {}] :
           scsv \in BOOLEAN }

InitBlock ==
  /\ hs \in BlockConfigs
  /\ cbb = EmptyBuilder
  /\ hello = [count |-> 0]
  /\ buf = <<>>
  /\ cbs = CBS_init(0, 0)
  /\ out = NoOut
  /\ last = [op |-> "CBS_init", arg |-> 0, ret |-> 1, pre |-> cbs, val |-> U32Zero]
  /\ queue = <<>>
  /\ log = <<>>
  /\ drv = [pc |-> "idle"]
  /\ scan = [decoded |-> 0]
  /\ ticket = [processed |-> 0]

\* The hello's tail arrived at the decoding side as the bytes of the builder.
BlockArrives(message, written, r) ==
  /\ hello.count = 0
  /\ hello' = [count |-> 1, message |-> message, written |-> written, ret |-> r.ret]
  /\ cbb' = [r.cbb EXCEPT !.ops = 1, !.ret = r.ret, !.callback = message]
  /\ buf' = BuilderBytes(r.cbb.runs)
  /\ cbs' = CBS_init(0, Len(buf'))
  /\ last' = [op |-> "CBS_init", arg |-> Len(buf'), ret |-> 1, pre |-> cbs', val |-> U32Zero]
  /\ UNCHANGED <<out, hs, queue, log, drv, scan, ticket>>

\* The client writes the extensions of its ClientHello for the server hs.
WriteClientHelloBlock ==
  /\ hs.server
  /\ \E written \in WrittenBlocks :
       BlockArrives("client_hello", written,
                    ssl_add_clienthello_tlsext_block(cbb, written))

\* The server writes the extensions of its ServerHello (EncryptedExtensions
\* in TLS 1.3) for the client hs, at the version of the connection.
WriteServerHelloBlock ==
  /\ ~hs.server
  /\ \E written \in WrittenBlocks :
       BlockArrives("server_hello", written,
                    ssl_add_serverhello_tlsext(hs, cbb, written))

\* A peer's hello ends without an extension block.
PeerOmitsBlock ==
  BlockArrives("peer", <<>>, [cbb |-> cbb, ret |-> 1])

ReadServerHelloBlock == hello.count = 1 /\ ScanServerHello

ReadClientHelloBlock == hello.count = 1 /\ ParseClientHello

NextBlock ==
  \/ WriteClientHelloBlock
  \/ WriteServerHelloBlock
  \/ PeerOmitsBlock
  \/ ReadServerHelloBlock
  \/ ReadClientHelloBlock

SpecBlock == InitBlock /\ [][NextBlock]_vars

\* The writer named message returned 1.
BlockWrittenBy(message) ==
  hello.count = 1 /\ hello.message = message /\ hello.ret = 1

\* The client has decoded a hello that carries no extension block at all.
AbsentBlockDecoded ==
  /\ hello.count = 1
  /\ scan.decoded = 1
  /\ scan.op = "ssl_scan_serverhello_tlsext"
  /\ buf = <<>>

\* C28: a ClientHello whose callbacks wrote nothing carries no extension
\* block at all, whatever the version, and otherwise a u16 length and the
\* bytes written; a ServerHello whose callbacks wrote nothing carries no
\* block below TLS 1.3 and the two bytes of a zero length at TLS 1.3; and
\* the client's decoder accepts a hello without a block below TLS 1.3,
\* calling no parser, and rejects it with decode_error at TLS 1.3.
C28_EmptyBlock ==
  /\ BlockWrittenBy("client_hello") =>
       buf = (IF hello.written = <<>> THEN <<>>
              ELSE U16Bytes(Len(hello.written)) \o hello.written)
  /\ BlockWrittenBy("server_hello") =>
       buf = (IF hello.written = <<>> /\ hs.version # "TLS1_3" THEN <<>>
              ELSE U16Bytes(Len(hello.written)) \o hello.written)
  /\ AbsentBlockDecoded =>
       IF hs.version = "TLS1_3"
         THEN scan.ret = 0 /\ scan.alert = "decode_error"
         ELSE scan.ret = 1 /\ scan.calls = <<>>

\* A TLS 1.3 server wrote an empty block as a zero length and the client
\* read it.
C28_Witness ==
  /\ BlockWrittenBy("server_hello")
  /\ hello.written = <<>>
  /\ hs.version = "TLS1_3"
  /\ buf = <<0, 0>>
  /\ scan.decoded = 1
  /\ scan.ret = 1

(***************************************************************************)
(* Early data and the HelloRetryRequest (checked under SpecCH).             *)
(***************************************************************************)

\* do_read_hello_retry_request accepted the retry request hello.retry.
RetryAccepted == hello.retry # NoMsg

\* The first ClientHello offered early data, which the client then writes.
EarlyDataInFlight == OfType(hello.first, "early_data") # <<>>

\* C29: when a HelloRetryRequest is accepted while the client is in early
\* data the handler returns early_data_rejected, and ok when no early data
\* is in flight; either way the state has advanced to SendSecondClientHello
\* and the second ClientHello has no early_data extension.
C29_RetryRejectsEarlyData ==
  /\ EarlyDataInFlight <=> (hello.count >= 1 /\ hs.in_early_data)
  /\ RetryAccepted =>
       /\ hello.retry_ret = (IF EarlyDataInFlight THEN "early_data_rejected" ELSE "ok")
       /\ hs.tls13_state = state_send_second_client_hello
       /\ hs.received_hello_retry_request
       /\ SecondHelloWritten => OfType(hello.extensions, "early_data") = <<>>

C29_Witness ==
  /\ RetryAccepted
  /\ EarlyDataInFlight
  /\ hello.retry_ret = "early_data_rejected"
  /\ SecondHelloWritten

(***************************************************************************)
(* ssl/t1_lib.cc: ssl_decrypt_ticket_with_ticket_keys step by step, beside  *)
(* the rotation of the ticket keys (specification SpecKeys).                *)
(*                                                                         *)
(* Threads of handshakes decrypt tickets with the keys of one SSL_CTX while *)
(* a writer rotates the keys. A ticket key is an object with a number; its  *)
(* name, its HMAC key and its AES key all carry that number. The rotation   *)
(* (ssl_ctx_rotate_ticket_encryption_key) and the lock (CRYPTO_MUTEX        *)
(* behind MutexReadLock) are not among the sources and follow their         *)
(* description: a reader/writer lock, and a writer that under the write     *)
(* lock makes the current key the previous one, frees the key that was the  *)
(* previous one and installs a new current key.                            *)
(***************************************************************************)

\* The handshake threads and the number of rotations looked at.
Threads == {1, 2}

MaxRotations == 2

KeyIds == 1..(MaxRotations + 1)

\* No key: a null tlsext_ticket_key_current or _prev, a name no key has.
NoKey == 0

\* A reader may enter when no writer holds the lock.
MutexReadLock_unlocked(lock) == TRUE

\* MutexReadLock lock(&ctx->lock) can be taken: no writer holds the lock.
MutexReadLock(lock) == ~lock.writer

\* MutexWriteLock can be taken: nobody holds the lock.
MutexWriteLock(lock) == ~lock.writer /\ lock.readers = {}

\* What a read of a field of key object k yields: the key's own material,
\* or, for an object that has been freed, anything the memory may since
\* hold.
KeyField(store, k) ==
  IF k \in store.freed THEN {NoKey} \cup KeyIds ELSE {k}

\* Lines 3361-3370: the key object the name of the ticket selects.
PickTicketKey(store, name) ==
  IF store.current # NoKey /\ store.current = name THEN store.current
  ELSE IF store.prev # NoKey /\ store.prev = name THEN store.prev
  ELSE NoKey

\* A thread about to call ssl_decrypt_ticket_with_ticket_keys for a ticket
\* whose first 16 bytes are name.
Reader(name) ==
  [pc |-> "start", name |-> name, key |-> NoKey, hmac_key |-> NoKey,
   aes_key |-> NoKey, result |-> "none", stale |-> FALSE]

InitKeys ==
  /\ \E first \in {NoKey, 1}, names \in [Threads -> {NoKey} \cup KeyIds] :
       ticket = [processed |-> 0,
                 lock |-> [writer |-> FALSE, readers |-> {}],
                 current |-> first,
                 prev |-> NoKey,
                 freed |-> {},
                 made |-> first,
                 wpc |-> "idle",
                 reader |-> [t \in Threads |-> Reader(names[t])]]
  /\ hs = [tls13_state |-> 0]
  /\ buf = <<>>
  /\ cbs = CBS_init(0, 0)
  /\ out = NoOut
  /\ last = [op |-> "CBS_init", arg |-> 0, ret |-> 1, pre |-> cbs, val |-> U32Zero]
  /\ queue = <<>>
  /\ log = <<>>
  /\ drv = [pc |-> "idle"]
  /\ hello = [count |-> 0]
  /\ scan = [decoded |-> 0]
  /\ cbb = [ops |-> 0]

keysOtherVars == <<buf, cbs, out, last, hs, queue, log, drv, hello, scan, cbb>>

\* Thread t moves on as r, the store becoming s.
ReaderStep(t, s, r) ==
  /\ ticket' = [s EXCEPT !.reader[t] = r]
  /\ UNCHANGED keysOtherVars

\* ssl_ctx_rotate_ticket_encryption_key fails: return ssl_ticket_aead_error.
RotateFails(t) ==
  /\ ticket.reader[t].pc = "start"
  /\ ReaderStep(t, ticket, [ticket.reader[t] EXCEPT !.pc = "done", !.result = "error"])

\* MutexReadLock lock(&ctx->lock);
AcquireRead(t) ==
  /\ ticket.reader[t].pc = "start"
  /\ MutexReadLock(ticket.lock)
  /\ ReaderStep(t, [ticket EXCEPT !.lock.readers = @ \cup {t}],
                [ticket.reader[t] EXCEPT !.pc = "locked"])

\* The choice of the key by the name in the ticket; without a match the
\* function returns ssl_ticket_aead_ignore_ticket and the lock goes.
PickKey(t) ==
  /\ ticket.reader[t].pc = "locked"
  /\ LET key == PickTicketKey(ticket, ticket.reader[t].name) IN
     IF key = NoKey
       THEN ReaderStep(t, [ticket EXCEPT !.lock.readers = @ \ {t}],
                       [ticket.reader[t] EXCEPT !.pc = "done", !.result = "ignore_ticket"])
       ELSE ReaderStep(t, ticket, [ticket.reader[t] EXCEPT !.pc = "picked", !.key = key])

\* HMAC_Init_ex(hmac_ctx, key->hmac_key, ...), which may fail.
HmacInit(t) ==
  /\ ticket.reader[t].pc = "picked"
  /\ LET r == ticket.reader[t] IN
     \/ \E k \in KeyField(ticket, r.key) :
          ReaderStep(t, ticket, [r EXCEPT !.pc = "hmac", !.hmac_key = k,
                                          !.stale = @ \/ r.key \in ticket.freed])
     \/ ReaderStep(t, [ticket EXCEPT !.lock.readers = @ \ {t}],
                   [r EXCEPT !.pc = "done", !.result = "error"])

\* EVP_DecryptInit_ex(cipher_ctx, EVP_aes_128_cbc(), NULL, key->aes_key, iv),
\* which may fail.
CipherInit(t) ==
  /\ ticket.reader[t].pc = "hmac"
  /\ LET r == ticket.reader[t] IN
     \/ \E k \in KeyField(ticket, r.key) :
          ReaderStep(t, ticket, [r EXCEPT !.pc = "cipher", !.aes_key = k,
                                          !.stale = @ \/ r.key \in ticket.freed])
     \/ ReaderStep(t, [ticket EXCEPT !.lock.readers = @ \ {t}],
                   [r EXCEPT !.pc = "done", !.result = "error"])

\* The end of the block: the lock is released; decrypt_ticket_with_cipher_ctx
\* then works with the two contexts alone.
ReleaseRead(t) ==
  /\ ticket.reader[t].pc = "cipher"
  /\ ReaderStep(t, [ticket EXCEPT !.lock.readers = @ \ {t}],
                [ticket.reader[t] EXCEPT !.pc = "done", !.result = "decrypt"])

\* The writer takes the write lock for a rotation.
AcquireWrite ==
  /\ ticket.wpc = "idle"
  /\ ticket.made < MaxRotations + 1
  /\ MutexWriteLock(ticket.lock)
  /\ ticket' = [ticket EXCEPT !.lock.writer = TRUE, !.wpc = "locked"]
  /\ UNCHANGED keysOtherVars

\* The current key becomes the previous one; the key that was the previous
\* one is freed.
RetireCurrent ==
  /\ ticket.wpc = "locked"
  /\ ticket' = [ticket EXCEPT !.prev = ticket.current,
                              !.freed = IF ticket.prev = NoKey THEN @
                                        ELSE @ \cup {ticket.prev},
                              !.wpc = "retired"]
  /\ UNCHANGED keysOtherVars

\* A new current key is installed.
InstallCurrent ==
  /\ ticket.wpc = "retired"
  /\ ticket' = [ticket EXCEPT !.current = ticket.made + 1,
                              !.made = ticket.made + 1,
                              !.wpc = "installed"]
  /\ UNCHANGED keysOtherVars

ReleaseWrite ==
  /\ ticket.wpc = "installed"
  /\ ticket' = [ticket EXCEPT !.lock.writer = FALSE, !.wpc = "idle"]
  /\ UNCHANGED keysOtherVars

NextKeys ==
  \/ \E t \in Threads : RotateFails(t)
  \/ \E t \in Threads : AcquireRead(t)
  \/ \E t \in Threads : PickKey(t)
  \/ \E t \in Threads : HmacInit(t)
  \/ \E t \in Threads : CipherInit(t)
  \/ \E t \in Threads : ReleaseRead(t)
  \/ AcquireWrite
  \/ RetireCurrent
  \/ InstallCurrent
  \/ ReleaseWrite

SpecKeys == InitKeys /\ [][NextKeys]_vars

\* Thread t is between the choice of the key and the end of the block.
InKeySection(t) == ticket.reader[t].pc \in {"locked", "picked", "hmac", "cipher"}

\* C30: the choice of the ticket key by name and the initialisation of the
\* HMAC and the AES context from it happen while the thread holds the read
\* lock and no writer holds the lock; whatever the interleaving with the
\* rotation, the two contexts hold keys of one and the same ticket key, the
\* one the ticket names, and no key that is being replaced or has been freed
\* is read; once the lock is released the thread reads no key any more.
C30_KeysUnderOneLock ==
  /\ ticket.lock.writer => ticket.lock.readers = {}
  /\ ticket.wpc # "idle" <=> ticket.lock.writer
  /\ \A t \in Threads :
       LET r == ticket.reader[t] IN
       /\ InKeySection(t) <=> t \in ticket.lock.readers
       /\ InKeySection(t) => ticket.wpc = "idle"
       /\ ~r.stale
       /\ r.pc \in {"picked", "hmac", "cipher"} =>
            /\ r.key = r.name
            /\ r.key \in {ticket.current, ticket.prev}
            /\ r.key \notin ticket.freed
       /\ r.pc \in {"hmac", "cipher"} \/ r.result = "decrypt" =>
            r.hmac_key = r.name
       /\ r.pc = "cipher" \/ r.result = "decrypt" =>
            r.aes_key = r.name /\ r.aes_key = r.hmac_key
       /\ r.result = "ignore_ticket" => r.key = NoKey

\* A thread decrypts with the previous key after a rotation, while the
\* other thread waits for the lock the writer holds.
C30_Witness ==
  /\ ticket.reader[1].result = "decrypt"
  /\ ticket.reader[1].name = 1
  /\ ticket.prev = 1
  /\ ticket.lock.writer
  /\ ticket.reader[2].pc = "start"

(***************************************************************************)
(* Claims about hs->extensions.sent.                                       *)
(***************************************************************************)
\* The extension types a block holds.
BlockTypes(extensions) == {extensions[i].type : i \in DOMAIN extensions}

\* The types of the registry's descriptors.
RegistryTypes == {kExtensions[i] : i \in 1..kNumExtensions}

\* C31: once ssl_add_clienthello_tlsext has returned, a descriptor's bit of
\* hs->extensions.sent is set exactly if its callback wrote an extension into
\* the block of this call: the bits of the first ClientHello do not survive
\* into the second, and the GREASE, padding, custom and pre_shared_key
\* extensions set no bit.
C31_SentBits ==
  hello.count >= 1 =>
    /\ hs.extensions_sent = BlockTypes(hello.extensions) \cap RegistryTypes
    /\ hs.extensions_sent \cap {"grease_ext1", "grease_ext2", "padding", "custom",
                                "pre_shared_key"} = {}
    /\ hello.count = 2 =>
         \A type \in BlockTypes(hello.first) \ BlockTypes(hello.extensions) :
           type \notin hs.extensions_sent

\* A second ClientHello that dropped early_data, which the first one had, and
\* that holds GREASE, custom, padding and pre_shared_key extensions.
C31_Witness ==
  /\ hello.count = 2
  /\ "early_data" \in BlockTypes(hello.first) \ BlockTypes(hello.extensions)
  /\ {"grease_ext1", "grease_ext2", "padding", "custom", "pre_shared_key"}
       \subseteq BlockTypes(hello.extensions)
  /\ "cookie" \in hs.extensions_sent

(***************************************************************************)
(* Claims about the padding extension.                                     *)
(***************************************************************************)
\* The extensions of a block that were written before the padding decision.
BeforePadding(extensions) ==
  SelectSeq(extensions, LAMBDA e : e.type \notin {"padding", "pre_shared_key"})

\* header_len as the padding decision of the last ClientHello computed it:
\* the header, the two bytes of the block's length, the extensions written so
\* far and the predicted length of pre_shared_key.
PrePaddingLen ==
  hello.header_len + 2 + CBB_len(BeforePadding(hello.extensions))
    + ext_pre_shared_key_clienthello_length(hs)

\* The bytes the pre_shared_key extension of the last ClientHello takes.
PreSharedKeyLen == CBB_len(OfType(hello.extensions, "pre_shared_key"))

\* A ClientHello of a client that pads: written, and not over DTLS.
PaddingDecided == HelloWritten /\ ~hs.is_dtls

HelloScanned ==
  /\ scan.decoded = 1
  /\ scan.op \in {"ssl_scan_serverhello_tlsext", "ssl_scan_clienthello_tlsext"}

\* The decode failed in the parse callback of a registry descriptor: the last
\* callback invoked is the one that refuses.
CallbackFailed ==
  /\ HelloScanned
  /\ scan.ret = 0
  /\ scan.calls # <<>>
  /\ scan.calls[Len(scan.calls)].type = scan.rejecting
  /\ scan.rejecting # "custom"

\* C33: when the decode of a hello extension block fails in a registry parse
\* callback, *out_alert is the alert that callback wrote, or decode_error if
\* it wrote none, whatever the callbacks invoked before it wrote; the
\* refusing callback is the last one invoked, and the decode returns 0.
C33_FailingCallbackAlert ==
  HelloScanned =>
    /\ Len(scan.alerts) = Len(scan.calls)
    /\ \A j \in DOMAIN scan.calls :
         scan.calls[j].type = scan.rejecting =>
           j = Len(scan.calls) /\ scan.ret = 0
    /\ scan.ret = 0 => scan.alert # NoAlert
    /\ CallbackFailed =>
         scan.alert = IF scan.rejecting \in hs.alert_writers
                        THEN AlertWrittenBy(scan.rejecting)
                        ELSE "decode_error"

\* A decode that failed in a callback that wrote no alert, after a callback
\* that accepted had written one.
C33_Witness ==
  /\ CallbackFailed
  /\ scan.rejecting \notin hs.alert_writers
  /\ scan.alert = "decode_error"
  /\ \E j \in 1..(Len(scan.alerts) - 1) : scan.alerts[j] = "unrecognized_name"

(***************************************************************************)
(* Claims about the extensions the server answers with.                    *)
(***************************************************************************)
\* The server wrote the extensions of its ServerHello.
ServerHelloAdded == scan.decoded = 2

\* The descriptors of the extensions in the ClientHello the server accepted.
ClientHelloTypes ==
  IF Len(buf) = 0 THEN {}
  ELSE LET entries == BlockEntries(HelloBlock) IN
       {ParserOf(entries[j].type) : j \in DOMAIN entries}

\* C34: ssl_add_serverhello_tlsext invokes the add_serverhello callback of a
\* descriptor only if its bit is in hs->extensions.received; a bit is in
\* there only if an extension of that type was in the ClientHello, or, for
\* renegotiation_info, if the ClientHello had the SCSV; in an SSL 3.0
\* ClientHello only renegotiation_info sets a bit. So the ServerHello holds
\* no registry extension the client did not send.
C34_OnlyReceivedAnswered ==
  ServerHelloAdded =>
    /\ \A j \in DOMAIN scan.add_calls : scan.add_calls[j] \in scan.received
    /\ \A type \in scan.received :
         \/ type \in ClientHelloTypes
         \/ type = "renegotiate" /\ hs.scsv
    /\ hs.version = "SSL3" => scan.received \subseteq {"renegotiate"}
    /\ \A j \in DOMAIN scan.added :
         \/ scan.added[j] \in ClientHelloTypes
         \/ scan.added[j] = "renegotiate" /\ hs.scsv

\* A server that answers server_name and the renegotiation_info the SCSV
\* stood for, the ClientHello having had server_name and an extension outside
\* the registry but no renegotiation_info.
C34_Witness ==
  /\ ServerHelloAdded
  /\ hs.scsv
  /\ ClientHelloTypes = {"server_name", "custom"}
  /\ scan.add_calls = <<"renegotiate", "server_name">>
  /\ scan.added = scan.add_calls

(***************************************************************************)
(* Specification SpecProto: the client decodes a ServerHello extension     *)
(* block that may hold next_proto_neg and                                  *)
(* application_layer_protocol_negotiation, with the parse callbacks of     *)
(* these two as t1_lib.cc has them. hs holds hs->next_proto_neg_seen and   *)
(* ssl->s3->alpn_selected; the client's protocol list is held as the set   *)
(* of its names.                                                           *)
(***************************************************************************)
\* What a parse callback did: its return value, what it left in *out_alert
\* and the handshake object.
Parsed(ok, alert, h) == [ok |-> ok, alert |-> alert, hs |-> h]

\* The while loop of ext_npn_parse_serverhello: every protocol of the list
\* decodes and is not empty.
RECURSIVE NpnListWellFormed(_)
NpnListWellFormed(contents) ==
  IF CBS_len(contents) = 0 THEN TRUE
  ELSE LET proto == CBS_get_u8_length_prefixed(contents, NoOut) IN
       IF proto.ret = 0 \/ CBS_len(proto.out) = 0 THEN FALSE
       ELSE NpnListWellFormed(proto.cbs)

\* ext_npn_parse_serverhello(hs, out_alert, contents); alert is what
\* *out_alert holds on entry.
ext_npn_parse_serverhello(h, alert, present, contents) ==
  IF ~present THEN Parsed(TRUE, alert, h)
  ELSE IF h.version = "TLS1_3" THEN Parsed(FALSE, alert, h)
  ELSE IF h.alpn_selected # <<>>
    \* NPN and ALPN may not be negotiated in the same connection.
    THEN Parsed(FALSE, "illegal_parameter", h)
  ELSE IF ~NpnListWellFormed(contents) THEN Parsed(FALSE, alert, h)
  ELSE IF ~h.next_proto_select_ok THEN Parsed(FALSE, "internal_error", h)
  ELSE Parsed(TRUE, alert, [h EXCEPT !.next_proto_neg_seen = TRUE])

\* ssl_is_alpn_protocol_allowed(ssl, protocol)
ssl_is_alpn_protocol_allowed(h, protocol) ==
  \/ h.allow_unknown_alpn_protos
  \/ protocol \in h.alpn_client_proto_list

\* The ProtocolName of a ProtocolNameList, name being what
\* CBS_get_u8_length_prefixed made of the list: it decodes, is not empty and
\* is the only one.
alpn_protocol_name(name) ==
  IF name.ret = 0 \/ CBS_len(name.out) = 0 \/ CBS_len(name.cbs) # 0
    THEN [ok |-> FALSE, name |-> <<>>]
  ELSE [ok |-> TRUE, name |-> CbsBytes(name.out)]

\* The ProtocolNameList of the extension, list being what
\* CBS_get_u16_length_prefixed made of the contents: it decodes, nothing
\* follows it, and it holds exactly one ProtocolName.
alpn_protocol_name_list(list) ==
  IF list.ret = 0 \/ CBS_len(list.cbs) # 0 THEN [ok |-> FALSE, name |-> <<>>]
  ELSE alpn_protocol_name(CBS_get_u8_length_prefixed(list.out, NoOut))

\* The end of ext_alpn_parse_serverhello, protocol being the decoded name:
\* the copy into ssl->s3->alpn_selected gets its memory.
alpn_select(h, alert, protocol) ==
  IF ~protocol.ok THEN Parsed(FALSE, alert, h)
  ELSE IF ~ssl_is_alpn_protocol_allowed(h, protocol.name)
    THEN Parsed(FALSE, "illegal_parameter", h)
  ELSE Parsed(TRUE, alert, [h EXCEPT !.alpn_selected = protocol.name])

\* ext_alpn_parse_serverhello without the test of hs->next_proto_neg_seen.
ext_alpn_parse_serverhello_unchecked(h, alert, present, contents) ==
  IF ~present THEN Parsed(TRUE, alert, h)
  ELSE alpn_select(h, alert,
         alpn_protocol_name_list(CBS_get_u16_length_prefixed(contents, NoOut)))

\* ext_alpn_parse_serverhello(hs, out_alert, contents)
ext_alpn_parse_serverhello(h, alert, present, contents) ==
  IF ~present THEN Parsed(TRUE, alert, h)
  ELSE IF h.next_proto_neg_seen
    \* NPN and ALPN may not be negotiated in the same connection.
    THEN Parsed(FALSE, "illegal_parameter", h)
  ELSE alpn_select(h, alert,
         alpn_protocol_name_list(CBS_get_u16_length_prefixed(contents, NoOut)))

\* kExtensions[i].parse_serverhello(hs, &alert, contents) with alert holding
\* decode_error; the callbacks other than the two above accept.
parse_serverhello(i, h, present, contents) ==
  CASE kExtensions[i] = "next_proto_neg" ->
         ext_npn_parse_serverhello(h, "decode_error", present, contents)
    [] kExtensions[i] = "application_layer_protocol_negotiation" ->
         ext_alpn_parse_serverhello(h, "decode_error", present, contents)
    [] OTHER -> Parsed(TRUE, "decode_error", h)

\* The decode so far: return value, *out_alert, the descriptors whose
\* callback was handed contents, the received bits, the handshake object.
ProtocolScan(ret, alert, calls, received, h) ==
  [ret |-> ret, alert |-> alert, calls |-> calls, received |-> received, hs |-> h]

\* What the decode s becomes by a callback that did p, handed the contents
\* of an extension of descriptor ext_index: the bit is set before the call,
\* and a refusal ends the decode with the callback's alert.
WireCall(s, ext_index, p) ==
  [s EXCEPT !.received = @ \cup {kExtensions[ext_index]},
            !.calls = Append(@, kExtensions[ext_index]),
            !.hs = p.hs,
            !.ret = IF p.ok THEN @ ELSE 0,
            !.alert = IF p.ok THEN @ ELSE p.alert]

\* The while loop of ssl_scan_serverhello_tlsext with these callbacks, until
\* the block is used up or the decode has failed. The client has no custom
\* extensions, so one of the ServerHello is unsolicited.
RECURSIVE ProtocolWirePass(_, _)
ProtocolWirePass(extensions, s) ==
  IF s.ret = 0 \/ CBS_len(extensions) = 0 THEN s
  ELSE
    LET type == CBS_get_u16(extensions) IN
    IF type.ret = 0 THEN [s EXCEPT !.ret = 0, !.alert = "decode_error"]
    ELSE
      LET extension == CBS_get_u16_length_prefixed(type.cbs, NoOut)
          ext_index == tls_extension_find(U32Val(type.val))
      IN
      IF extension.ret = 0 THEN [s EXCEPT !.ret = 0, !.alert = "decode_error"]
      ELSE IF ext_index = 0
        THEN [s EXCEPT !.ret = 0, !.alert = "unsupported_extension"]
      ELSE IF ~SentOrRenegotiate(s.hs, ext_index, U32Val(type.val))
        THEN [s EXCEPT !.ret = 0, !.alert = "unsupported_extension"]
      ELSE ProtocolWirePass(extension.cbs,
             WireCall(s, ext_index,
                      parse_serverhello(ext_index, s.hs, TRUE, extension.out)))

\* What the decode s becomes by a callback that did p, handed no contents.
AbsentCall(s, p) ==
  [s EXCEPT !.hs = p.hs,
            !.ret = IF p.ok THEN @ ELSE 0,
            !.alert = IF p.ok THEN @ ELSE p.alert]

\* The for loop of ssl_scan_serverhello_tlsext from descriptor i on, entered
\* unless the while loop failed, until the table is used up or the decode
\* has failed.
RECURSIVE ProtocolAbsentPass(_, _)
ProtocolAbsentPass(i, s) ==
  IF s.ret = 0 \/ i > kNumExtensions THEN s
  ELSE IF kExtensions[i] \in s.received THEN ProtocolAbsentPass(i + 1, s)
  ELSE ProtocolAbsentPass(i + 1,
         AbsentCall(s, parse_serverhello(i, s.hs, FALSE, NoOut)))

\* ssl_scan_serverhello_tlsext(hs, cbs, out_alert) with these callbacks.
ssl_scan_serverhello_protocols(h, c) ==
  LET none == ProtocolScan(1, NoAlert, <<>>, {}, h)
      extensions == CBS_get_u16_length_prefixed(c, NoOut)
  IN
  IF CBS_len(c) = 0 /\ h.version # "TLS1_3" THEN none
  ELSE IF extensions.ret = 0 THEN [none EXCEPT !.ret = 0, !.alert = "decode_error"]
  ELSE IF tls1_check_duplicate_extensions(extensions.out, TRUE) = 0
    THEN [none EXCEPT !.ret = 0, !.alert = "decode_error"]
  ELSE ProtocolAbsentPass(1, ProtocolWirePass(extensions.out, none))

\* next_proto_neg with an empty list, with the protocol "h" and with an empty
\* protocol; ALPN with the protocol "h", with the protocol "i" and with an
\* empty protocol; server_name.
ProtocolExtensions ==
  { WireExtension(TLSEXT_TYPE("next_proto_neg"), <<>>),
    WireExtension(TLSEXT_TYPE("next_proto_neg"), <<1, 104>>),
    WireExtension(TLSEXT_TYPE("next_proto_neg"), <<0>>),
    WireExtension(TLSEXT_TYPE("application_layer_protocol_negotiation"), <<0, 2, 1, 104>>),
    WireExtension(TLSEXT_TYPE("application_layer_protocol_negotiation"), <<0, 2, 1, 105>>),
    WireExtension(TLSEXT_TYPE("application_layer_protocol_negotiation"), <<0, 1, 0>>),
    WireExtension(TLSEXT_TYPE("server_name"), <<>>) }

ProtocolBlocks ==
  { Concat(parts) :
      parts \in UNION { [1..n -> ProtocolExtensions] : n \in 0..MaxExtensions } }

\* The clients: the version negotiated, what the ClientHello offered, whether
\* next_proto_select_cb selects a protocol, and whether the client accepts
\* protocols it did not advertise; it advertised "h".
ProtocolConfigs ==
  { [server |-> FALSE, version |-> v, extensions_sent |-> sent,
     next_proto_select_ok |-> select_ok, allow_unknown_alpn_protos |-> unknown,
     alpn_client_proto_list |-> {<<104>>},
     next_proto_neg_seen |-> FALSE, alpn_selected |-> <<>>] :
      v \in {"TLS1_2", "TLS1_3"},
      sent \in SUBSET {"next_proto_neg", "application_layer_protocol_negotiation",
                       "server_name"},
      select_ok \in BOOLEAN, unknown \in BOOLEAN }

InitProto ==
  /\ buf \in { Framed(block, "exact") : block \in ProtocolBlocks }
  /\ cbs = CBS_init(0, Len(buf))
  /\ out = NoOut
  /\ last = [op |-> "CBS_init", arg |-> Len(buf), ret |-> 1, pre |-> cbs, val |-> U32Zero]
  /\ hs \in ProtocolConfigs
  /\ queue = <<>>
  /\ log = <<>>
  /\ drv = [pc |-> "idle"]
  /\ hello = [count |-> 0]
  /\ scan = [decoded |-> 0]
  /\ ticket = [processed |-> 0]
  /\ cbb = [ops |-> 0]

\* The client decodes the block: the callbacks leave their marks in hs.
ScanProtocols ==
  /\ scan.decoded = 0
  /\ \E s \in {ssl_scan_serverhello_protocols(hs, cbs)} :
       /\ scan' = [decoded |-> 1, op |-> "ssl_scan_serverhello_protocols",
                   ret |-> s.ret, alert |-> s.alert, calls |-> s.calls,
                   received |-> s.received]
       /\ hs' = s.hs
  /\ UNCHANGED <<buf, cbs, out, last, queue, log, drv, hello, ticket, cbb>>

NextProto == ScanProtocols

SpecProto == InitProto /\ [][NextProto]_vars

\* The decode handed contents to the callbacks of both next_proto_neg and
\* ALPN: the one it came to first accepted.
BothParsed ==
  /\ scan.decoded = 1
  /\ \E j, k \in DOMAIN scan.calls :
       /\ scan.calls[j] = "next_proto_neg"
       /\ scan.calls[k] = "application_layer_protocol_negotiation"

\* The statement of C35 as the specification has it: never both negotiated,
\* and whichever of the two is parsed second fails with illegal_parameter.
C35_SecondIsIllegalParameter ==
  /\ ~(hs.next_proto_neg_seen /\ hs.alpn_selected # <<>>)
  /\ BothParsed => scan.ret = 0 /\ scan.alert = "illegal_parameter"

\* C35: on the client no decode of a ServerHello extension block, in either
\* wire order of next_proto_neg and ALPN, ends with next_proto_neg_seen true
\* and a non-empty alpn_selected; whichever of the two is parsed second
\* fails, with illegal_parameter before TLS 1.3 and, in TLS 1.3, where only
\* next_proto_neg can come second, with decode_error.
C35_NeverBothProtocols ==
  /\ ~(hs.next_proto_neg_seen /\ hs.alpn_selected # <<>>)
  /\ BothParsed =>
       /\ scan.ret = 0
       /\ scan.alert = IF hs.version = "TLS1_3" THEN "decode_error"
                       ELSE "illegal_parameter"
       /\ hs.version = "TLS1_3" =>
            scan.calls[Len(scan.calls)] = "next_proto_neg"

\* A TLS 1.3 decode that accepted ALPN and then refused next_proto_neg.
C35_Witness ==
  /\ BothParsed
  /\ hs.version = "TLS1_3"
  /\ hs.alpn_selected = <<104>>
  /\ scan.alert = "decode_error"

(***************************************************************************)
(* Specification SpecGrease: the ClientHellos of SpecCH written by clients *)
(* with GREASE enabled, for every pair of GREASE extension values the      *)
(* client random can yield.                                                *)
(***************************************************************************)
\* The high four bits of a byte.
Nibbles == 0..15

InitGrease ==
  /\ \E sc \in {<<"none", FALSE, 0, FALSE>>, <<"ok", TRUE, 16, TRUE>>},
        hostname_len \in {9, 115}, first \in Nibbles, second \in Nibbles :
       hs = [HelloClient(<<"TLS1_3_DRAFT_VERSION", FALSE, "TLS1_3", FALSE, FALSE>>,
                         sc, hostname_len, TRUE, FALSE, FALSE)
               EXCEPT !.grease_seed = GreaseSeed(first, second)]
  /\ hello = NoHello
  /\ queue = <<>>
  /\ log = <<>>
  /\ drv = [pc |-> "idle"]
  /\ buf = <<>>
  /\ cbs = CBS_init(0, 0)
  /\ out = NoOut
  /\ last = [op |-> "CBS_init", arg |-> 0, ret |-> 1, pre |-> cbs, val |-> U32Zero]
  /\ scan = [decoded |-> 0]
  /\ ticket = [processed |-> 0]
  /\ cbb = [ops |-> 0]

SpecGrease == InitGrease /\ [][NextCH]_vars

\* The type an extension of a block has on the wire: the GREASE value of a
\* fake extension, the TLSEXT_TYPE of any other.
WireType(e) ==
  IF e.type \in {"grease_ext1", "grease_ext2"} THEN e.value ELSE TLSEXT_TYPE(e.type)

\* The wire types of the extensions of the last ClientHello, in their order,
\* the custom extensions left aside.
HelloWireTypes ==
  LET exts == SelectSeq(hello.extensions, LAMBDA e : e.type # "custom")
  IN [i \in DOMAIN exts |-> WireType(exts[i])]

\* The .value fields of kExtensions are pairwise distinct.
RegistryTypesDistinct ==
  \A i, j \in 1..kNumExtensions :
    i # j => TLSEXT_TYPE(kExtensions[i]) # TLSEXT_TYPE(kExtensions[j])

\* The wire types of the registry, of padding and of pre_shared_key.
AssignedTypes ==
  {TLSEXT_TYPE(name) : name \in RegistryTypes \cup {"padding", "pre_shared_key"}}

\* C36: the extension block of a ClientHello, custom extensions aside, has
\* no type twice, which is what tls1_check_duplicate_extensions asks: the
\* types of the registry are pairwise distinct and each is written at most
\* once, the two GREASE types differ from each other and from every registry
\* type, from padding and from pre_shared_key, and padding and
\* pre_shared_key are written at most once.
C36_NoDuplicateType ==
  /\ RegistryTypesDistinct
  /\ HelloWritten =>
       /\ \A types \in {HelloWireTypes} :
            \A i, j \in DOMAIN types : i # j => types[i] # types[j]
       /\ \A type \in RegistryTypes \cup {"padding", "pre_shared_key"} :
            Len(OfType(hello.extensions, type)) <= 1
       /\ \A e \in {hello.extensions[i] : i \in DOMAIN hello.extensions} :
            e.type \in {"grease_ext1", "grease_ext2"} =>
              /\ e.value \notin AssignedTypes
              /\ e.value % 16 = 10 /\ e.value \div 256 = e.value % 256
       /\ hs.grease_enabled =>
            OfType(hello.extensions, "grease_ext1")[1].value
              # OfType(hello.extensions, "grease_ext2")[1].value

\* A second ClientHello of a client whose two GREASE indices yield the same
\* value, with padding and pre_shared_key.
C36_Witness ==
  /\ SecondHelloWritten
  /\ hs.grease_seed["ssl_grease_extension1"] = hs.grease_seed["ssl_grease_extension2"]
  /\ OfType(hello.extensions, "grease_ext2")[1].value
       = BitXor(OfType(hello.extensions, "grease_ext1")[1].value, 4112, 16)
  /\ OfType(hello.extensions, "padding") # <<>>
  /\ OfType(hello.extensions, "pre_shared_key") # <<>>

\* C37: in every ClientHello, the second one after a HelloRetryRequest whose
\* cipher has another PRF hash than the offered session's included, the
\* bytes ext_pre_shared_key_add_clienthello wrote are as many as
\* ext_pre_shared_key_clienthello_length returned for the padding decision:
\* 15 + ticket length + binder length when the extension is offered, 0
\* otherwise.
C37_PreSharedKeyLengthPredicted ==
  (HelloWritten /\ RetryCipherKnown) =>
    /\ PreSharedKeyLen = ext_pre_shared_key_clienthello_length(hs)
    /\ OfType(hello.extensions, "pre_shared_key") # <<>> =>
         PreSharedKeyLen = 15 + hs.tlsext_ticklen + BinderLen

(***************************************************************************)
(* The write keys of the client's second flight.                           *)
(***************************************************************************)
\* The positions of the log where tls13_set_traffic_key installed a key.
KeyIdx(key) ==
  {i \in DOMAIN log : log[i] = Ev("tls13_set_traffic_key", key)}

\* The positions of the log where a message of a type was consumed.
ConsumedIdx(type) ==
  {i \in DOMAIN log : log[i].e = "next_message" /\ log[i].a = type}

\* The key was installed by do_read_server_hello: before the handler's
\* next_message let go of the ServerHello.
InReadServerHello(i) == \E j \in ConsumedIdx("server_hello") : i < j

\* The key was installed by do_send_end_of_early_data: after the server's
\* Finished was consumed and before the client added anything but the end of
\* early data.
InSendEndOfEarlyData(i) ==
  /\ \E j \in ConsumedIdx("finished") : j < i
  /\ \A j \in AddedIdx("end_of_early_data") : j < i
  /\ \A j \in AddedIdx("certificate") \cup AddedIdx("certificate_verify")
                \cup AddedIdx("channel_id") \cup AddedIdx("finished") : i < j

\* The key was installed by do_complete_second_flight, after the Finished.
InCompleteSecondFlight(i) == \E j \in AddedIdx("finished") : j < i

\* C38: once the handshake is Done, the client handshake traffic secret was
\* installed as the write key exactly once and before the client's Finished
\* was added, by ReadServerHello when early data was not offered and by
\* SendEndOfEarlyData when it was, a HelloRetryRequest or not; and the
\* application traffic keys are only ever installed by CompleteSecondFlight,
\* after the Finished was added.
C38_WriteKeys ==
  /\ hs.tls13_state = state_done =>
       /\ Cardinality(KeyIdx("seal client_handshake_secret")) = 1
       /\ AddedIdx("finished") # {}
       /\ \A i \in KeyIdx("seal client_handshake_secret") :
            /\ \A j \in AddedIdx("finished") : i < j
            /\ ~hs.early_data_offered =>
                 InReadServerHello(i) /\ ~InSendEndOfEarlyData(i)
            /\ hs.early_data_offered =>
                 InSendEndOfEarlyData(i) /\ ~InReadServerHello(i)
       /\ Cardinality(KeyIdx("open server_traffic_secret_0")) = 1
       /\ Cardinality(KeyIdx("seal client_traffic_secret_0")) = 1
  /\ \A i \in KeyIdx("open server_traffic_secret_0")
                \cup KeyIdx("seal client_traffic_secret_0") :
       /\ InCompleteSecondFlight(i)
       /\ \A j \in KeyIdx("seal client_handshake_secret") : j < i

\* A handshake that offered early data, took a HelloRetryRequest and is Done.
C38_Witness ==
  /\ hs.tls13_state = state_done
  /\ hs.early_data_offered
  /\ hs.received_hello_retry_request
  /\ KeyIdx("seal client_handshake_secret") # {}
  /\ KeyIdx("seal client_traffic_secret_0") # {}

(***************************************************************************)
(* Early data as the server's EncryptedExtensions settles it.              *)
(***************************************************************************)
\* do_read_encrypted_extensions was the last handler to run and it went
\* through the whole message: it returned neither for want of a message nor
\* with an error.
EncryptedExtensionsRead ==
  /\ drv.handler = state_read_encrypted_extensions
  /\ drv.wait \notin {"none", "read_message", "error"}

\* The handler has just returned: hs->in_early_data is still what the handler
\* saw, the caller has not acted on the return value yet.
JustReturned == drv.wait = "ok" \/ drv.pc = "idle"

\* C39: in every state early_data_accepted implies session_reused, implies
\* early_data_offered, implies that the last ClientHello held the early_data
\* extension and implies that no HelloRetryRequest was received; and whenever
\* do_read_encrypted_extensions went through an EncryptedExtensions while the
\* client was in early data and the message did not accept it, it returned
\* early_data_rejected with tls13_state at ReadCertificateRequest, and it
\* returned early_data_rejected in no other case.
C39_EarlyDataAccepted ==
  /\ hs.early_data_accepted =>
       /\ hs.session_reused
       /\ hs.early_data_offered
       /\ hs.early_data_sent
       /\ ~hs.received_hello_retry_request
  /\ EncryptedExtensionsRead =>
       /\ hs.tls13_state = state_read_certificate_request
       /\ drv.wait \in {"ok", "early_data_rejected"}
       /\ hs.early_data_accepted <=> drv.msg.early_data
       /\ JustReturned =>
            (drv.wait = "early_data_rejected"
               <=> hs.in_early_data /\ ~drv.msg.early_data)
       /\ drv.wait = "early_data_rejected" => ~hs.early_data_accepted

\* The server resumed the session but its EncryptedExtensions has no
\* early_data extension, and the client was in early data.
C39_Witness ==
  /\ EncryptedExtensionsRead
  /\ drv.pc = "idle"
  /\ hs.in_early_data
  /\ hs.session_reused
  /\ ~drv.msg.early_data
  /\ drv.wait = "early_data_rejected"
  /\ hs.tls13_state = state_read_certificate_request

(***************************************************************************)
(* tls13_client_handshake, call by call. last is the record of the call in *)
(* progress, or of the last one: the state it was entered in, the states   *)
(* whose handlers it invoked, in order, and what it returned ("running"    *)
(* inside the loop). The log of effects is not kept here.                  *)
(***************************************************************************)
DriverCall(entered, ran, ret) ==
  [op |-> "tls13_client_handshake", arg |-> entered, ran |-> ran, ret |-> ret]

\* The switch of the driver: what the handler of the state can return, over
\* what its collaborators and callbacks can answer.
DriverSwitch(state, h, q) ==
  CASE state = state_read_hello_retry_request ->
         {do_read_hello_retry_request(h, q, fail) :
            fail \in {"none", "add_change_cipher_spec", "transcript", "cookie",
                      "ssl_hash_message"}}
    [] state = state_send_second_client_hello ->
         {do_send_second_client_hello(h, q, fail) :
            fail \in {"none", "set_write_state", "ssl_write_client_hello"}}
    [] state = state_read_server_hello ->
         {do_read_server_hello(h, q, fail) :
            fail \in {"none", "SSL_SESSION_dup", "ssl_get_new_session",
                      "tls13_init_key_schedule", "Finish",
                      "tls13_advance_key_schedule", "ssl_hash_message",
                      "tls13_derive_handshake_secrets", "tls13_set_traffic_key",
                      "add_change_cipher_spec", "tls13_set_traffic_key seal"}}
    [] state = state_read_encrypted_extensions ->
         {do_read_encrypted_extensions(h, q, fail) :
            fail \in {"none", "BUF_memdup", "ssl_hash_message"}}
    [] state = state_read_certificate_request ->
         {do_read_certificate_request(h, q, fail) :
            fail \in {"none", "ca_names", "ssl_hash_message"}}
    [] state = state_read_server_certificate ->
         {do_read_server_certificate(h, q, fail) :
            fail \in {"none", "tls13_process_certificate", "ssl_hash_message"}}
    [] state = state_read_server_certificate_verify ->
         {do_read_server_certificate_verify(h, q, fail, verify) :
            fail \in {"none", "ssl_hash_message"},
            verify \in {"ssl_verify_ok", "ssl_verify_invalid", "ssl_verify_retry"}}
    [] state = state_read_server_finished ->
         {do_read_server_finished(h, q, fail) :
            fail \in {"none", "ssl_hash_message", "tls13_advance_key_schedule",
                      "tls13_derive_application_secrets"}}
    [] state = state_send_end_of_early_data ->
         {do_send_end_of_early_data(h, q, fail) :
            fail \in {"none", "end_of_early_data", "tls13_set_traffic_key"}}
    [] state = state_send_client_certificate ->
         {do_send_client_certificate(h, q, fail, cert_cb) :
            fail \in {"none", "tls13_add_certificate"},
            cert_cb \in {"ok with certificate", "ok without certificate",
                         "error", "retry"}}
    [] state = state_send_client_certificate_verify ->
         {do_send_client_certificate_verify(h, q, "none", sign) :
            sign \in {"ssl_private_key_success", "ssl_private_key_retry",
                      "ssl_private_key_failure"}}
    [] state = state_complete_second_flight ->
         {do_complete_second_flight(h, q, fail, key) :
            fail \in {"none", "tls1_write_channel_id", "tls13_add_finished",
                      "tls13_set_traffic_key", "tls13_set_traffic_key seal",
                      "tls13_derive_resumption_secret"},
            key \in {"no key", "key", "bad key"}}
    [] OTHER -> {Ok(h, <<>>)}

\* The caller invokes tls13_client_handshake: at first, and again after any
\* return value but error and ok.
DriverEnter ==
  /\ drv.pc = "idle"
  /\ drv.wait \notin {"error", "ok"}
  /\ drv' = [drv EXCEPT !.pc = "running"]
  /\ hs' = IF drv.wait = "early_data_rejected"
             THEN [hs EXCEPT !.in_early_data = FALSE] ELSE hs
  /\ last' = DriverCall(hs.tls13_state, <<>>, "running")
  /\ UNCHANGED <<queue, log, buf, cbs, out, otherVars>>

\* One turn of the while loop: the handler of the state runs, and a return
\* value other than ok is handed to the caller.
DriverTurn ==
  /\ drv.pc = "running"
  /\ hs.tls13_state # state_done
  /\ \E r \in DriverSwitch(hs.tls13_state, hs, queue) :
       /\ hs' = r.hs
       /\ queue' = IF Consumes(r.evs) THEN Tail(queue) ELSE queue
       /\ drv' = [pc |-> IF r.ret = "ok" THEN "running" ELSE "idle",
                  wait |-> r.ret, alert |-> r.alert, cause |-> r.cause,
                  handler |-> hs.tls13_state,
                  msg |-> IF queue = <<>> THEN NoMsg ELSE Head(queue),
                  loglen |-> 0]
       /\ last' = DriverCall(last.arg, Append(last.ran, hs.tls13_state),
                             IF r.ret = "ok" THEN "running" ELSE r.ret)
  /\ UNCHANGED <<log, buf, cbs, out, otherVars>>

\* The loop condition fails: return ssl_hs_ok.
DriverReturn ==
  /\ drv.pc = "running"
  /\ hs.tls13_state = state_done
  /\ drv' = [drv EXCEPT !.pc = "idle", !.wait = "ok"]
  /\ last' = DriverCall(last.arg, last.ran, "ok")
  /\ UNCHANGED <<hs, queue, log, buf, cbs, out, otherVars>>

NextDriver ==
  \/ Deliver
  \/ DriverEnter
  \/ DriverTurn
  \/ DriverReturn

SpecDriver == InitHS /\ [][NextDriver]_vars

\* The return values that ask the caller to come back when an operation of
\* its own has completed.
AsyncWaits ==
  {"x509_lookup", "private_key_operation", "certificate_verify", "channel_id_lookup"}

\* A turn of the loop that does not end on an operation still to complete.
DriverTurnCompleted == DriverTurn /\ drv'.wait \notin AsyncWaits

\* The caller calls again, the loop runs, the record layer delivers the
\* message a handler waits for, and an operation that is waited for
\* completes in the end.
SpecDriverFair ==
  /\ SpecDriver
  /\ WF_vars(Deliver)
  /\ WF_vars(DriverEnter \/ DriverTurn \/ DriverReturn)
  /\ SF_vars(DriverTurnCompleted)

InDriverCall == last.op = "tls13_client_handshake"

StrictlyIncreasing(s) == \A i, j \in DOMAIN s : i < j => s[i] < s[j]

\* What holds of a call of the driver at every moment.
DriverCallBounded ==
  InDriverCall =>
    /\ Len(last.ran) <= 12
    /\ StrictlyIncreasing(last.ran)
    /\ \A i \in DOMAIN last.ran : last.arg <= last.ran[i] /\ last.ran[i] < state_done
    /\ last.ran # <<>> => last.ran[Len(last.ran)] < hs.tls13_state
                          \/ (last.ret \notin {"running", "ok"}
                              /\ last.ran[Len(last.ran)] <= hs.tls13_state)
    /\ last.ret = "running" <=> drv.pc = "running"
    /\ (last.ret = "running" /\ last.ran # <<>>) =>
         drv.wait = "ok" /\ last.ran[Len(last.ran)] < hs.tls13_state
    /\ last.ret # "running" => last.ret = drv.wait
    /\ last.ret = "ok" => hs.tls13_state = state_done

\* The handshake is over for the caller: the driver returned error, or it
\* returned ok with tls13_state at Done.
DriverSettled ==
  /\ drv.pc = "idle"
  /\ drv.wait = "error" \/ (drv.wait = "ok" /\ hs.tls13_state = state_done)

\* C40: a call of tls13_client_handshake invokes the handlers of strictly
\* increasing states, so at most 12 of them; a handler that returned ok has
\* advanced tls13_state, any other return value ends the call at once with
\* that value, and ok is returned only at Done; and when the caller calls
\* again after every return value but error and ok, the awaited messages are
\* delivered and the awaited operations complete, then every call returns
\* and, unless one returns error, the handshake reaches Done and ok is
\* returned, after which no call is made.
C40_DriverTerminates ==
  /\ []DriverCallBounded
  /\ <>[]DriverSettled

\* A call that found the server's Finished, ran the five handlers from
\* ReadServerFinished to CompleteSecondFlight and returned flush at Done.
C40_Witness ==
  /\ InDriverCall
  /\ last.arg = state_read_server_finished
  /\ Len(last.ran) = 5
  /\ last.ret = "flush"
  /\ hs.tls13_state = state_done

====
